---- MODULE Spec2Model ----
(***************************************************************************)
(* A model of the TCAS logic core of Simplified-TCAS: the threat           *)
(* classifier (tcas/threat.py), the sensitivity-level table (config.py),   *)
(* the advisory aggregator (tcas/advisory.py), the tracking pipeline       *)
(* (tcas/tracking.py) and the simulation loop with its coordination        *)
(* resolver (sim/world.py).                                                *)
(*                                                                         *)
(* Numbers.  The source computes in floats; the model computes in exact    *)
(* integer arithmetic.  Positions are whole metres, velocities whole m/s,  *)
(* altitudes whole feet, times whole seconds.  The classifier's            *)
(* rel_climb_fps is in whole ft/s; the climb_fps of an Aircraft is kept in *)
(* feet per minute (60 * ft/s), which makes every Table-3 band of          *)
(* tcas/advisory.py (fpm * 1/60) a whole number.  A time tau is kept as    *)
(* the fraction tn/td, a miss distance d_cpa as the fraction dn/dd, and    *)
(* every comparison of the source is made by cross-multiplication.         *)
(* Horizontal thresholds (DMOD, HMD, the clear range) are in centimetres,  *)
(* which makes nm * 1852.0 an integer for every row of the table.  The     *)
(* inputs are drawn from vectors whose norm is a whole number, so that     *)
(* math.hypot is exact.                                                    *)
(***************************************************************************)
EXTENDS Integers, Sequences, FiniteSets, TLC

VARIABLES
    \* ---- one call of classify_contact -------------------------------
    own_alt_ft,      \* argument own_alt_ft
    rel_pos_m,       \* argument rel_pos_m   <<x, y>>
    rel_vel_mps,     \* argument rel_vel_mps <<x, y>>
    rel_alt_ft,      \* argument rel_alt_ft
    rel_climb_fps,   \* argument rel_climb_fps
    prev_state,      \* argument prev_state (an AdvisoryType, or "None")
    kind,            \* the AdvisoryType returned, "Pending" before the call
    geom,            \* the (tau, d_cpa) returned by closing_tau_and_dcpA, or None
    \* ---- a World (sim/world.py) ---------------------------------------
    ac,              \* World.ac: the aircraft, a sequence in insertion order
    time_s,          \* World.time_s
    paused,          \* World.paused
    manual_override, \* World.manual_override
    pc,              \* the position inside World.step
    rels_by_own,     \* World.step's local rels_by_own
    phases,          \* the phases the current World.step call has run, in order
    cpos,            \* _coordinate_vertical_ras: the pairs done, None outside a call
    coord_runs,      \* the runs of _coordinate_vertical_ras done (since the last step call)
    after_first,     \* the advisories as the first call of the resolver left them
    log_writer,      \* World.log_writer is not None
    call,            \* the latest World.step call: its dt and, at its entry, time_s,
                     \* paused, the number of log rows and of monitor calls
    steps,           \* the World.step calls made
    \* ---- one call of AdvisoryLogic.step (tcas/advisory.py) -------------
    logic_own,       \* argument own
    logic_rels,      \* argument rels: <<[cs, track]>> in insertion order
    logic_result,    \* what the call did: None before it, then a return or a raise
    \* ---- World.step, continued -----------------------------------------
    selected,        \* the kinds the aggregator returned in the latest phase 3
    log_rows,        \* the rows written to the log, each <<time_s, own, intr>>
    \* ---- an NMACMonitor (tcas/monitor.py) ------------------------------
    stats,           \* NMACMonitor.stats
    monitor_calls,   \* the compute_metrics calls made on the monitor
    mon_last,        \* the latest call on the monitor: its arguments and return
    \* ---- one call of apply_command (tcas/advisory.py) ------------------
    cmd_own,         \* argument own, as it was before the call
    cmd_override,    \* argument override_manual
    cmd_after        \* own after the call, None before it

classifyVars ==
    <<own_alt_ft, rel_pos_m, rel_vel_mps, rel_alt_ft, rel_climb_fps, prev_state, kind,
      geom>>

stepVars == <<log_writer, call, steps>>

worldVars ==
    <<ac, time_s, paused, manual_override, pc, rels_by_own, phases,
      cpos, coord_runs, after_first, stepVars>>

logicVars == <<logic_own, logic_rels, logic_result>>

monitorVars == <<stats, monitor_calls, mon_last>>

commandVars == <<cmd_own, cmd_override, cmd_after>>

auxVars == <<selected, log_rows, monitorVars, commandVars>>

vars == <<classifyVars, worldVars, logicVars, auxVars>>

----------------------------------------------------------------------------
(* tcas/models.py: AdvisoryType *)

AdvisoryType ==
    { "CLEAR", "TA",
      "RA_CLIMB", "RA_DESCEND", "RA_MAINTAIN",
      "RA_INCREASE_CLIMB", "RA_INCREASE_DESCEND",
      "RA_REDUCE_CLIMB", "RA_REDUCE_DESCEND",
      "RA_CROSSING_CLIMB", "RA_CROSSING_DESCEND",
      "RA_DO_NOT_CLIMB", "RA_DO_NOT_DESCEND" }

\* kind.name.startswith("RA_")
IsRAName(k) ==
    k \in { "RA_CLIMB", "RA_DESCEND", "RA_MAINTAIN",
            "RA_INCREASE_CLIMB", "RA_INCREASE_DESCEND",
            "RA_REDUCE_CLIMB", "RA_REDUCE_DESCEND",
            "RA_CROSSING_CLIMB", "RA_CROSSING_DESCEND",
            "RA_DO_NOT_CLIMB", "RA_DO_NOT_DESCEND" }

\* "DESCEND" in kind.name
HasDescend(k) ==
    k \in { "RA_DESCEND", "RA_INCREASE_DESCEND", "RA_REDUCE_DESCEND",
            "RA_CROSSING_DESCEND", "RA_DO_NOT_DESCEND" }

\* Python's None for an optional number: the empty sequence; <<x>> is the number x.
None == << >>
Some(x) == <<x>>
Val(o) == o[1]

Abs(x) == IF x < 0 THEN 0 - x ELSE x

----------------------------------------------------------------------------
(* tcas/math_utils.py *)

dot(a, b) == a[1] * b[1] + a[2] * b[2]

RECURSIVE ISqrt(_, _, _)
\* the largest r in lo..hi with r * r <= n (bisection)
ISqrt(n, lo, hi) ==
    IF lo >= hi THEN lo
    ELSE LET mid == (lo + hi + 1) \div 2
         IN  IF mid * mid <= n THEN ISqrt(n, mid, hi) ELSE ISqrt(n, lo, mid - 1)

\* math.hypot on a vector whose norm is a whole number
norm(a) == ISqrt(a[1] * a[1] + a[2] * a[2], 0, 46340)

HasWholeNorm(a) == norm(a) * norm(a) = a[1] * a[1] + a[2] * a[2]

----------------------------------------------------------------------------
(* Exact fractions n/d with d >= 0; +infinity is 1/0. *)

Frac(n, d) == [n |-> n, d |-> d]
\* mutant: the closure time of a contact at rest is 0 s
Inf_zero == Frac(0, 1)

Inf == Frac(1, 0)
LeQ(a, b) == a.n * b.d <= b.n * a.d
LtQ(a, b) == a.n * b.d < b.n * a.d

----------------------------------------------------------------------------
(* tcas/threat.py: closing_tau_and_dcpA *)

\* tau = -dot(p, v) / v2 and d_cpa = norm(p + v * tau).  With whole inputs
\* v2 <= 1e-6 is v2 = 0.  p + v * tau = (cross / v2) * (vy, -vx) for
\* cross = px * vy - py * vx, so its norm is |cross| / norm(v).
\* mutant: d_cpa is the current range
closing_tau_and_dcpA_range(rel_pos, rel_vel) ==
    LET v2 == dot(rel_vel, rel_vel)
    IN  IF v2 = 0
        THEN [tau |-> Inf, d_cpa |-> Frac(norm(rel_pos), 1)]
        ELSE [tau |-> Frac(0 - dot(rel_pos, rel_vel), v2),
              d_cpa |-> Frac(norm(rel_pos), 1)]

closing_tau_and_dcpA(rel_pos, rel_vel) ==
    LET v2 == dot(rel_vel, rel_vel)
        cross == rel_pos[1] * rel_vel[2] - rel_pos[2] * rel_vel[1]
    IN  IF v2 = 0
        THEN [tau |-> Inf, d_cpa |-> Frac(norm(rel_pos), 1)]
        ELSE [tau |-> Frac(0 - dot(rel_pos, rel_vel), v2),
              d_cpa |-> Frac(Abs(cross), norm(rel_vel))]

----------------------------------------------------------------------------
(* config.py *)

\* NM_TO_M = 1852.0, here in centimetres per hundredth of a nautical mile
NM_TO_M == 1852

\* SENSITIVITY_LEVELS: alt_min, alt_max, SL, TA_tau, RA_tau, TA_DMOD, RA_DMOD
\* (hundredths of a nautical mile), TA_ZTHR, RA_ZTHR
SENSITIVITY_LEVELS ==
    << <<0,     1000,   2, Some(20), None,     Some(30),  None,      850,  None>>,
       <<1000,  2350,   3, Some(25), Some(15), Some(33),  Some(20),  850,  Some(600)>>,
       <<2350,  5000,   4, Some(30), Some(20), Some(48),  Some(35),  850,  Some(600)>>,
       <<5000,  10000,  5, Some(40), Some(25), Some(75),  Some(55),  850,  Some(600)>>,
       <<10000, 20000,  6, Some(45), Some(30), Some(100), Some(80),  850,  Some(600)>>,
       <<20000, 42000,  7, Some(48), Some(35), Some(130), Some(110), 850,  Some(700)>>,
       <<42000, 999999, 7, Some(48), Some(35), Some(130), Some(110), 1200, Some(800)>> >>

\* legacy / fallback thresholds
TA_TAU_S == 35
TA_HORZ_M == 1200
TA_VERT_FT == 850
RA_TAU_S == 25
RA_HORZ_M == 900
RA_VERT_FT == 700

\* HMD_RA_M = 1.3 * NM_TO_M, in centimetres
HMD_RA_M == 130 * NM_TO_M
GROUND_ALT_FT == 50
RA_TOTAL_INHIBIT_ALT_FT == 1000

\* nm * NM_TO_M if nm is not None else None (centimetres)
NmToM(nm) == IF nm # None THEN Some(Val(nm) * NM_TO_M) ELSE None

\* the row of a band [amin, amax) holding own_alt_ft, as the dict returned
SlRow(r) ==
    [sl |-> Some(r[3]), ta_tau |-> r[4], ra_tau |-> r[5],
     ta_dmod_m |-> NmToM(r[6]), ra_dmod_m |-> NmToM(r[7]),
     ta_zthr_ft |-> r[8], ra_zthr_ft |-> r[9]]

get_sl_thresholds(alt) ==
    LET hits == { i \in 1..Len(SENSITIVITY_LEVELS) :
                    SENSITIVITY_LEVELS[i][1] <= alt /\ alt < SENSITIVITY_LEVELS[i][2] }
    IN  IF hits # {}
        THEN SlRow(SENSITIVITY_LEVELS[CHOOSE i \in hits : \A j \in hits : i <= j])
        ELSE [sl |-> None, ta_tau |-> Some(TA_TAU_S), ra_tau |-> Some(RA_TAU_S),
              ta_dmod_m |-> Some(TA_HORZ_M * 100), ra_dmod_m |-> Some(RA_HORZ_M * 100),
              ta_zthr_ft |-> TA_VERT_FT, ra_zthr_ft |-> Some(RA_VERT_FT)]

----------------------------------------------------------------------------
(* tcas/threat.py: classify_contact *)

CROSSING_ALT_FT == 250

\* CLEAR_RANGE_M = 1852 * 13, in centimetres
CLEAR_RANGE_M == 1852 * 13 * 100

\* d_cpa (metres, a fraction) <= a threshold in centimetres
DcpaLe(d_cpa, cm) == d_cpa.n * 100 <= cm * d_cpa.d

\* vert_tau = abs(rel_alt_ft) / abs(rel_vs_fpm) * 60.0 with
\* rel_vs_fpm = rel_climb_fps * 60.0, if abs(rel_vs_fpm) > 1e-3, else +inf
VertTau(rel_alt, rel_climb) ==
    IF rel_climb # 0 THEN Frac(Abs(rel_alt), Abs(rel_climb)) ELSE Inf

\* mutant: a diverging contact (tau < 0) passes the gate
OuterClear_no_diverging(tau, d_cpa, rel_alt) ==
    \/ ~DcpaLe(d_cpa, CLEAR_RANGE_M)
    \/ LtQ(Frac(60, 1), tau)
    \/ Abs(rel_alt) > 4000

\* the outer CLEAR gate
OuterClear(tau, d_cpa, rel_alt) ==
    \/ ~DcpaLe(d_cpa, CLEAR_RANGE_M)
    \/ LtQ(Frac(60, 1), tau)
    \/ Abs(rel_alt) > 4000
    \/ LtQ(tau, Frac(0, 1))

ground(own_alt) == own_alt <= GROUND_ALT_FT

\* mutant: the inhibit altitude itself is not inhibited
low_alt_total_inhibit_strict(own_alt) == own_alt < RA_TOTAL_INHIBIT_ALT_FT

low_alt_total_inhibit(own_alt) == own_alt <= RA_TOTAL_INHIBIT_ALT_FT

range_ok_ta(th, tau, d_cpa) ==
    \/ (th.ta_tau # None /\ LeQ(tau, Frac(Val(th.ta_tau), 1)))
    \/ (th.ta_dmod_m # None /\ DcpaLe(d_cpa, Val(th.ta_dmod_m)))

vert_ok_ta(th, vert_tau, rel_alt) ==
    \/ (th.ta_tau # None /\ LeQ(vert_tau, Frac(Val(th.ta_tau), 1)))
    \/ Abs(rel_alt) <= th.ta_zthr_ft

\* mutant: the TA envelope has no vertical part
is_ta_range_only(th, tau, d_cpa, vert_tau, rel_alt) ==
    range_ok_ta(th, tau, d_cpa)

is_ta(th, tau, d_cpa, vert_tau, rel_alt) ==
    range_ok_ta(th, tau, d_cpa) /\ vert_ok_ta(th, vert_tau, rel_alt)

\* th.get("ra_alim_ft"): get_sl_thresholds returns no such key
ra_alim(th) == None

\* predicted_miss_ft = abs(rel_alt_ft + rel_vs_fps * ra_tau), or None
predicted_miss_ft(th, rel_alt, rel_climb) ==
    IF th.ra_tau # None /\ ra_alim(th) # None
    THEN Some(Abs(rel_alt + rel_climb * Val(th.ra_tau)))
    ELSE None

alim_violation(th, rel_alt, rel_climb) ==
    /\ predicted_miss_ft(th, rel_alt, rel_climb) # None
    /\ ra_alim(th) # None
    /\ Val(predicted_miss_ft(th, rel_alt, rel_climb)) < Val(ra_alim(th))

range_ok_ra(th, tau, d_cpa) ==
    LeQ(tau, Frac(Val(th.ra_tau), 1)) \/ DcpaLe(d_cpa, Val(th.ra_dmod_m))

\* mutant: the vertical part looks at the relative altitude only
vert_ok_ra_alt_only(th, vert_tau, rel_alt, rel_climb) ==
    \/ Abs(rel_alt) <= Val(th.ra_zthr_ft)
    \/ alim_violation(th, rel_alt, rel_climb)

vert_ok_ra(th, vert_tau, rel_alt, rel_climb) ==
    \/ LeQ(vert_tau, Frac(Val(th.ra_tau), 1))
    \/ Abs(rel_alt) <= Val(th.ra_zthr_ft)
    \/ alim_violation(th, rel_alt, rel_climb)

\* the RA envelope before the HMD filter and before the low-altitude inhibit
RaEnvelope(th, tau, d_cpa, vert_tau, rel_alt, rel_climb) ==
    IF th.ra_tau # None /\ th.ra_dmod_m # None /\ th.ra_zthr_ft # None
    THEN range_ok_ra(th, tau, d_cpa) /\ vert_ok_ra(th, vert_tau, rel_alt, rel_climb)
    ELSE FALSE

\* base_is_ra after the low-altitude / ground inhibition
base_is_ra(own_alt, th, tau, d_cpa, vert_tau, rel_alt, rel_climb) ==
    IF low_alt_total_inhibit(own_alt) \/ ground(own_alt)
    THEN FALSE
    ELSE RaEnvelope(th, tau, d_cpa, vert_tau, rel_alt, rel_climb)

\* mutant: the HMD filter is switched off
hmd_allows_ra_always(d_cpa) == TRUE

hmd_allows_ra(d_cpa) == DcpaLe(d_cpa, HMD_RA_M)

\* mutant: only the basic corrective RAs count as a previous RA
prev_is_ra_basic(prev) == prev \in {"RA_CLIMB", "RA_DESCEND"}

prev_is_ra(prev) == prev \in AdvisoryType /\ IsRAName(prev)

\* mutant: no crossing RA near co-altitude
base_ra_kind_no_crossing(rel_alt) ==
    IF rel_alt > 0 THEN "RA_DESCEND"
    ELSE IF rel_alt < 0 THEN "RA_CLIMB"
    ELSE "RA_CLIMB"

base_ra_kind(rel_alt) ==
    IF Abs(rel_alt) < CROSSING_ALT_FT
    THEN IF rel_alt >= 0 THEN "RA_CROSSING_DESCEND" ELSE "RA_CROSSING_CLIMB"
    ELSE IF rel_alt > 0 THEN "RA_DESCEND"
         ELSE IF rel_alt < 0 THEN "RA_CLIMB"
         ELSE "RA_CLIMB"

preventive_ra_kind(rel_alt) ==
    IF rel_alt > 0 THEN "RA_DO_NOT_CLIMB"
    ELSE IF rel_alt < 0 THEN "RA_DO_NOT_DESCEND"
    ELSE "RA_DO_NOT_CLIMB"

\* mutant: a continuing RA is strengthened but never weakened
RefineRa_no_reduce(th, tau, rel_alt) ==
    LET k == base_ra_kind(rel_alt)
    IN  IF th.ra_tau # None
        THEN IF LtQ(tau, Frac(Val(th.ra_tau), 2))
             THEN IF HasDescend(k) THEN "RA_INCREASE_DESCEND" ELSE "RA_INCREASE_CLIMB"
             ELSE k
        ELSE k

\* the refinement of the base kind while an RA continues
RefineRa(th, tau, rel_alt) ==
    LET k == base_ra_kind(rel_alt)
    IN  IF th.ra_tau # None
        THEN IF LtQ(tau, Frac(Val(th.ra_tau), 2))
             THEN IF HasDescend(k) THEN "RA_INCREASE_DESCEND" ELSE "RA_INCREASE_CLIMB"
             ELSE IF LtQ(Frac(Val(th.ra_tau) * 12, 10), tau)
                  THEN IF HasDescend(k) THEN "RA_REDUCE_DESCEND" ELSE "RA_REDUCE_CLIMB"
                  ELSE k
        ELSE k

\* mutant: the preventive window excludes its edges
use_preventive_strict(th, tau, rel_alt) ==
    /\ th.ra_tau # None /\ th.ra_zthr_ft # None
    /\ LET rt == Val(th.ra_tau)
           rz == Val(th.ra_zthr_ft)
           tau_ratio == IF rt > 0 THEN Frac(tau.n, tau.d * rt) ELSE Frac(0, 1)
           alt_ratio == IF rz > 0 THEN Frac(Abs(rel_alt), rz) ELSE Frac(0, 1)
       IN  /\ LtQ(Frac(8, 10), tau_ratio)
           /\ LtQ(tau_ratio, Frac(12, 10))
           /\ LtQ(Frac(4, 10), alt_ratio)

\* 0.8 <= tau / ra_tau <= 1.2 and abs(rel_alt_ft) / ra_zthr >= 0.4
\* (a ratio is 0.0 when its threshold is not > 0)
use_preventive(th, tau, rel_alt) ==
    /\ th.ra_tau # None /\ th.ra_zthr_ft # None
    /\ LET rt == Val(th.ra_tau)
           rz == Val(th.ra_zthr_ft)
           tau_ratio == IF rt > 0 THEN Frac(tau.n, tau.d * rt) ELSE Frac(0, 1)
           alt_ratio == IF rz > 0 THEN Frac(Abs(rel_alt), rz) ELSE Frac(0, 1)
       IN  /\ LeQ(Frac(8, 10), tau_ratio)
           /\ LeQ(tau_ratio, Frac(12, 10))
           /\ LeQ(Frac(4, 10), alt_ratio)

Result(k, r) == [kind |-> k, reason |-> r]

\* the reason of an RA begins with kind.name
RaResult(k) == Result(k, k)

\* mutant: a previous preventive RA is not held as an RA
classify_contact_preventive_not_held(own_alt, rel_pos, rel_vel, rel_alt, rel_climb, prev) ==
    LET g == closing_tau_and_dcpA(rel_pos, rel_vel)
        tau == g.tau
        d_cpa == g.d_cpa
        vert_tau == VertTau(rel_alt, rel_climb)
        th == get_sl_thresholds(own_alt)
        inhibit == low_alt_total_inhibit(own_alt) \/ ground(own_alt)
        base == base_is_ra(own_alt, th, tau, d_cpa, vert_tau, rel_alt, rel_climb)
        ta == is_ta(th, tau, d_cpa, vert_tau, rel_alt)
        is_ra == base /\ hmd_allows_ra(d_cpa)
    IN  IF OuterClear(tau, d_cpa, rel_alt)
        THEN Result("CLEAR", "Clear (out of range or diverging)")
        ELSE IF prev_is_ra(prev) /\ prev \notin {"RA_DO_NOT_CLIMB", "RA_DO_NOT_DESCEND"}
        THEN IF inhibit
             THEN Result("CLEAR", "Clear (RA inhibited at low altitude/ground)")
             ELSE IF hmd_allows_ra(d_cpa) /\ base
             THEN RaResult(RefineRa(th, tau, rel_alt))
             ELSE IF ~hmd_allows_ra(d_cpa)
             THEN Result("CLEAR", "Clear of conflict (HMD filter)")
             ELSE IF ~ta
             THEN Result("CLEAR", "Clear of conflict (RA resolved)")
             ELSE Result("RA_MAINTAIN", "RA_MAINTAIN (TA only; hold VS)")
        ELSE IF is_ra
        THEN RaResult(IF use_preventive(th, tau, rel_alt)
                      THEN preventive_ra_kind(rel_alt)
                      ELSE base_ra_kind(rel_alt))
        ELSE IF ta
        THEN Result("TA", "TA")
        ELSE Result("CLEAR", "Clear (no conflict)")

classify_contact(own_alt, rel_pos, rel_vel, rel_alt, rel_climb, prev) ==
    LET g == closing_tau_and_dcpA(rel_pos, rel_vel)
        tau == g.tau
        d_cpa == g.d_cpa
        vert_tau == VertTau(rel_alt, rel_climb)
        th == get_sl_thresholds(own_alt)
        inhibit == low_alt_total_inhibit(own_alt) \/ ground(own_alt)
        base == base_is_ra(own_alt, th, tau, d_cpa, vert_tau, rel_alt, rel_climb)
        ta == is_ta(th, tau, d_cpa, vert_tau, rel_alt)
        is_ra == base /\ hmd_allows_ra(d_cpa)
    IN  IF OuterClear(tau, d_cpa, rel_alt)
        THEN Result("CLEAR", "Clear (out of range or diverging)")
        ELSE IF prev_is_ra(prev)
        THEN IF inhibit
             THEN Result("CLEAR", "Clear (RA inhibited at low altitude/ground)")
             ELSE IF hmd_allows_ra(d_cpa) /\ base
             THEN RaResult(RefineRa(th, tau, rel_alt))
             ELSE IF ~hmd_allows_ra(d_cpa)
             THEN Result("CLEAR", "Clear of conflict (HMD filter)")
             ELSE IF ~ta
             THEN Result("CLEAR", "Clear of conflict (RA resolved)")
             ELSE Result("RA_MAINTAIN", "RA_MAINTAIN (TA only; hold VS)")
        ELSE IF is_ra
        THEN RaResult(IF use_preventive(th, tau, rel_alt)
                      THEN preventive_ra_kind(rel_alt)
                      ELSE base_ra_kind(rel_alt))
        ELSE IF ta
        THEN Result("TA", "TA")
        ELSE Result("CLEAR", "Clear (no conflict)")

----------------------------------------------------------------------------
(* config.py and tcas/monitor.py: the NMAC thresholds, NMACStats and        *)
(* NMACMonitor.compute_metrics.  NMAC_HORZ_M is in centimetres; the minima  *)
(* of the statistics are fractions, +inf before the first call.             *)

NMAC_HORZ_M == 3 * NM_TO_M * 10
NMAC_VERT_FT == 300

\* NMACStats()
NMACStats == [nmac_count |-> 0, min_horz_m |-> Inf, min_vert_ft |-> Inf]

\* mutant: the minima are overwritten by the latest separations
record_latest(st, horiz_m, vert_ft, nmac) ==
    [nmac_count |-> IF nmac THEN st.nmac_count + 1 ELSE st.nmac_count,
     min_horz_m |-> Frac(horiz_m, 1),
     min_vert_ft |-> Frac(vert_ft, 1)]

\* NMACStats.record
record(st, horiz_m, vert_ft, nmac) ==
    [nmac_count |-> IF nmac THEN st.nmac_count + 1 ELSE st.nmac_count,
     min_horz_m |-> IF LtQ(Frac(horiz_m, 1), st.min_horz_m)
                    THEN Frac(horiz_m, 1) ELSE st.min_horz_m,
     min_vert_ft |-> IF LtQ(Frac(vert_ft, 1), st.min_vert_ft)
                     THEN Frac(vert_ft, 1) ELSE st.min_vert_ft]

\* mutant: the vertical threshold itself counts as a near mid-air collision
is_nmac_inclusive(horiz_m, vert_ft) ==
    horiz_m * 100 < NMAC_HORZ_M /\ vert_ft <= NMAC_VERT_FT

\* is_nmac = horiz_m < NMAC_HORZ_M and vert_ft < NMAC_VERT_FT
is_nmac(horiz_m, vert_ft) ==
    horiz_m * 100 < NMAC_HORZ_M /\ vert_ft < NMAC_VERT_FT

\* NMACMonitor.compute_metrics: the statistics after the call and the tuple returned
compute_metrics(st, rel_pos, rel_vel, rel_alt) ==
    LET horiz_m == norm(rel_pos)
        vert_ft == Abs(rel_alt)
        g == closing_tau_and_dcpA(rel_pos, rel_vel)
        nmac == is_nmac(horiz_m, vert_ft)
    IN  [stats |-> record(st, horiz_m, vert_ft, nmac),
         ret |-> [horiz_m |-> horiz_m, vert_ft |-> vert_ft, tau |-> g.tau,
                  d_cpa |-> g.d_cpa, is_nmac |-> nmac]]

----------------------------------------------------------------------------
(* sim/world.py: the vertical sense of an RA and the coordinated opposite *)

UP_RAS == {"RA_CLIMB", "RA_INCREASE_CLIMB", "RA_CROSSING_CLIMB", "RA_DO_NOT_DESCEND"}
DOWN_RAS == {"RA_DESCEND", "RA_INCREASE_DESCEND", "RA_CROSSING_DESCEND", "RA_DO_NOT_CLIMB"}
NEUTRAL_RAS == {"RA_MAINTAIN", "RA_REDUCE_CLIMB", "RA_REDUCE_DESCEND"}

ra_vertical_direction(k) ==
    IF k \in UP_RAS THEN 1
    ELSE IF k \in DOWN_RAS THEN 0 - 1
    ELSE IF k \in NEUTRAL_RAS THEN 0
    ELSE 0

\* mutant: a crossing climb flips to the plain descend
RA_FLIP_MAP_crossing_to_plain ==
    [k \in { "RA_CLIMB", "RA_DESCEND", "RA_INCREASE_CLIMB", "RA_INCREASE_DESCEND",
             "RA_REDUCE_CLIMB", "RA_REDUCE_DESCEND", "RA_CROSSING_CLIMB",
             "RA_CROSSING_DESCEND", "RA_DO_NOT_CLIMB", "RA_DO_NOT_DESCEND" } |->
        CASE k = "RA_CLIMB" -> "RA_DESCEND"
          [] k = "RA_DESCEND" -> "RA_CLIMB"
          [] k = "RA_INCREASE_CLIMB" -> "RA_INCREASE_DESCEND"
          [] k = "RA_INCREASE_DESCEND" -> "RA_INCREASE_CLIMB"
          [] k = "RA_REDUCE_CLIMB" -> "RA_REDUCE_DESCEND"
          [] k = "RA_REDUCE_DESCEND" -> "RA_REDUCE_CLIMB"
          [] k = "RA_CROSSING_CLIMB" -> "RA_DESCEND"
          [] k = "RA_CROSSING_DESCEND" -> "RA_CROSSING_CLIMB"
          [] k = "RA_DO_NOT_CLIMB" -> "RA_DO_NOT_DESCEND"
          [] k = "RA_DO_NOT_DESCEND" -> "RA_DO_NOT_CLIMB"]

RA_FLIP_MAP ==
    [k \in { "RA_CLIMB", "RA_DESCEND", "RA_INCREASE_CLIMB", "RA_INCREASE_DESCEND",
             "RA_REDUCE_CLIMB", "RA_REDUCE_DESCEND", "RA_CROSSING_CLIMB",
             "RA_CROSSING_DESCEND", "RA_DO_NOT_CLIMB", "RA_DO_NOT_DESCEND" } |->
        CASE k = "RA_CLIMB" -> "RA_DESCEND"
          [] k = "RA_DESCEND" -> "RA_CLIMB"
          [] k = "RA_INCREASE_CLIMB" -> "RA_INCREASE_DESCEND"
          [] k = "RA_INCREASE_DESCEND" -> "RA_INCREASE_CLIMB"
          [] k = "RA_REDUCE_CLIMB" -> "RA_REDUCE_DESCEND"
          [] k = "RA_REDUCE_DESCEND" -> "RA_REDUCE_CLIMB"
          [] k = "RA_CROSSING_CLIMB" -> "RA_CROSSING_DESCEND"
          [] k = "RA_CROSSING_DESCEND" -> "RA_CROSSING_CLIMB"
          [] k = "RA_DO_NOT_CLIMB" -> "RA_DO_NOT_DESCEND"
          [] k = "RA_DO_NOT_DESCEND" -> "RA_DO_NOT_CLIMB"]

----------------------------------------------------------------------------
(* tcas/models.py: Advisory and Aircraft.  A reason is the sequence of the   *)
(* parts it was built from; appending to the string appends a part.         *)

Advisory(k, r) == [kind |-> k, reason |-> r]

FLIP_NOTE == " [coordinated vertical RA flip]"

----------------------------------------------------------------------------
(* sim/world.py: World._coordinate_vertical_ras *)

\* the pairs (i, j), i < j, of n aircraft in the order of the two loops
PairsOf(n) ==
    SelectSeq([k \in 1..(n * n) |-> <<((k - 1) \div n) + 1, ((k - 1) % n) + 1>>],
              LAMBDA p : p[1] < p[2])

\* mutant: the check that skips a pair of opposite senses is missing
SameSenseConflict_no_sign(a, b) ==
    /\ a.tcas_equipped /\ b.tcas_equipped
    /\ ~(a.on_ground \/ b.on_ground)
    /\ IsRAName(a.advisory.kind) /\ IsRAName(b.advisory.kind)
    /\ ra_vertical_direction(a.advisory.kind) # 0
    /\ ra_vertical_direction(b.advisory.kind) # 0

\* does the loop body reach the flip for the pair (a, b)
SameSenseConflict(a, b) ==
    /\ a.tcas_equipped /\ b.tcas_equipped
    /\ ~(a.on_ground \/ b.on_ground)
    /\ IsRAName(a.advisory.kind) /\ IsRAName(b.advisory.kind)
    /\ ra_vertical_direction(a.advisory.kind) # 0
    /\ ra_vertical_direction(b.advisory.kind) # 0
    /\ ~(ra_vertical_direction(a.advisory.kind) * ra_vertical_direction(b.advisory.kind) < 0)

\* mutant: the lower aircraft is flipped
flip_target_lower(acs, i, j) == IF acs[i].alt_ft >= acs[j].alt_ft THEN j ELSE i

\* the aircraft to flip: the higher one, the first of the pair on a tie
flip_target(acs, i, j) == IF acs[i].alt_ft >= acs[j].alt_ft THEN i ELSE j

\* mutant: the note is appended but the kind is kept
Flipped_keep_kind(a) ==
    [a EXCEPT !.advisory = Advisory(a.advisory.kind, Append(a.advisory.reason, FLIP_NOTE))]

\* flip_target.advisory = Advisory(new_kind, reason + note), if the map has the kind
Flipped(a) ==
    IF a.advisory.kind \in DOMAIN RA_FLIP_MAP
    THEN [a EXCEPT !.advisory =
             Advisory(RA_FLIP_MAP[a.advisory.kind], Append(a.advisory.reason, FLIP_NOTE))]
    ELSE a

\* one pass of the loop body, for the pair (i, j)
CoordinatePairOf(acs, i, j) ==
    IF SameSenseConflict(acs[i], acs[j])
    THEN [acs EXCEPT ![flip_target(acs, i, j)] = Flipped(acs[flip_target(acs, i, j)])]
    ELSE acs

RECURSIVE CoordinateFrom(_, _, _)
\* the loop from the k-th pair on
CoordinateFrom(acs, pairs, k) ==
    IF k > Len(pairs) THEN acs
    ELSE CoordinateFrom(CoordinatePairOf(acs, pairs[k][1], pairs[k][2]), pairs, k + 1)

\* the whole resolver
coordinate_vertical_ras(acs) == CoordinateFrom(acs, PairsOf(Len(acs)), 1)

----------------------------------------------------------------------------
(* One call of classify_contact on inputs drawn from bounded sets. *)

OwnAlts == {-100, 50, 1000, 1001, 3000, 7000, 15000, 43000}
RelXs == {-500, 0, 300, 500, 1000, 2000, 3500}
RelYs == {0, 500, 2000, 2500, 25000}
RelVels == {<<0, 0>>, <<-50, 0>>, <<-10, 0>>, <<-30, -40>>}
RelAlts == {-900, -300, -100, 0, 240, 600, 700, 1300, 4001}
RelClimbs == {-30, 0, 20}
PrevStates == {"None", "CLEAR", "TA", "RA_CLIMB", "RA_MAINTAIN", "RA_DO_NOT_CLIMB"}

ClassifyIdle ==
    /\ own_alt_ft = 0 /\ rel_pos_m = <<0, 0>> /\ rel_vel_mps = <<0, 0>>
    /\ rel_alt_ft = 0 /\ rel_climb_fps = 0 /\ prev_state = "None" /\ kind = "Idle"
    /\ geom = None

ClassifyInit ==
    /\ own_alt_ft \in OwnAlts
    /\ rel_pos_m \in RelXs \X RelYs
    /\ rel_vel_mps \in RelVels
    /\ HasWholeNorm(rel_vel_mps)
    /\ (rel_vel_mps = <<0, 0>> => HasWholeNorm(rel_pos_m))
    /\ rel_alt_ft \in RelAlts
    /\ rel_climb_fps \in RelClimbs
    /\ prev_state \in PrevStates
    /\ kind = "Pending"
    /\ geom = None

Classify ==
    /\ kind = "Pending"
    /\ kind' = classify_contact(own_alt_ft, rel_pos_m, rel_vel_mps, rel_alt_ft,
                                rel_climb_fps, prev_state).kind
    /\ UNCHANGED <<own_alt_ft, rel_pos_m, rel_vel_mps, rel_alt_ft, rel_climb_fps, prev_state,
                   geom>>
    /\ UNCHANGED <<worldVars, logicVars, auxVars>>

\* no World: the classifier is called on its own
WorldIdle ==
    /\ ac = << >> /\ time_s = 0 /\ paused = FALSE /\ manual_override = FALSE
    /\ pc = "idle" /\ rels_by_own = << >> /\ phases = << >>
    /\ cpos = None /\ coord_runs = 0 /\ after_first = << >>
    /\ log_writer = FALSE /\ call = None /\ steps = 0
    /\ selected = << >> /\ log_rows = << >>

\* no call of AdvisoryLogic.step
LogicIdle == logic_own = None /\ logic_rels = << >> /\ logic_result = None

\* NMACMonitor.__init__: fresh statistics, no call made
MonitorInit == stats = NMACStats /\ monitor_calls = 0 /\ mon_last = None

\* no call of apply_command
CommandIdle == cmd_own = None /\ cmd_override = FALSE /\ cmd_after = None

\* the state before the call, with no World and no aggregator call
ClassifyStart == ClassifyInit /\ WorldIdle /\ LogicIdle /\ MonitorInit /\ CommandIdle

SpecClassify == ClassifyStart /\ [][Classify]_vars

----------------------------------------------------------------------------
(* Properties of one classify_contact call. *)

Called == kind \in AdvisoryType
CurGeom == closing_tau_and_dcpA(rel_pos_m, rel_vel_mps)
CurTh == get_sl_thresholds(own_alt_ft)
CurVertTau == VertTau(rel_alt_ft, rel_climb_fps)
CurOuterClear == OuterClear(CurGeom.tau, CurGeom.d_cpa, rel_alt_ft)
\* the TA envelope of the input
CurTaEnvelope == is_ta(CurTh, CurGeom.tau, CurGeom.d_cpa, CurVertTau, rel_alt_ft)
\* the RA envelope of the input at the ownship's sensitivity level
CurRaEnvelope ==
    RaEnvelope(CurTh, CurGeom.tau, CurGeom.d_cpa, CurVertTau, rel_alt_ft, rel_climb_fps)
CurBeyondHmd == CurGeom.d_cpa.n * 100 > HMD_RA_M * CurGeom.d_cpa.d
CurInhibited == own_alt_ft <= RA_TOTAL_INHIBIT_ALT_FT

\* C1: low-altitude inhibition is absolute: a call with
\* own_alt_ft <= RA_TOTAL_INHIBIT_ALT_FT returns CLEAR or TA, never an RA_* kind,
\* for every geometry, relative vertical rate and previous state.
C1_LowAltitudeInhibit ==
    (Called /\ own_alt_ft <= RA_TOTAL_INHIBIT_ALT_FT) => kind \in {"CLEAR", "TA"}

\* C1 witness: at exactly the inhibit altitude, where the sensitivity level defines
\* RA thresholds and the RA envelope holds, the call returned TA.
C1_Witness ==
    /\ Called /\ own_alt_ft = RA_TOTAL_INHIBIT_ALT_FT
    /\ ~CurOuterClear /\ CurRaEnvelope /\ ~CurBeyondHmd
    /\ kind = "TA"

\* C2 as stated: with a previous RA_* state and an input that satisfies the TA
\* envelope the call returns an RA_* kind, never CLEAR or TA, and RA_MAINTAIN only
\* when the RA envelope has ended.
C2_Original ==
    (Called /\ IsRAName(prev_state) /\ CurTaEnvelope)
        => /\ IsRAName(kind)
           /\ (kind = "RA_MAINTAIN" => ~CurRaEnvelope)

\* C2 amended: with a previous RA_* state, an input that passes the outer clear
\* gate, an ownship above the RA inhibit altitude and d_cpa <= HMD_RA_M, an input
\* that satisfies the TA envelope returns an RA_* kind, never CLEAR or TA, and
\* RA_MAINTAIN only when the RA envelope has ended.
C2_HysteresisAmended ==
    (Called /\ IsRAName(prev_state) /\ CurTaEnvelope
            /\ ~CurOuterClear /\ ~CurInhibited /\ ~CurBeyondHmd)
        => /\ IsRAName(kind)
           /\ (kind = "RA_MAINTAIN" => ~CurRaEnvelope)

\* C2 witness: a previous RA, the TA envelope holds and the RA envelope has ended:
\* the call returned RA_MAINTAIN.
C2_Witness ==
    /\ Called /\ IsRAName(prev_state) /\ CurTaEnvelope /\ ~CurRaEnvelope
    /\ ~CurOuterClear /\ ~CurInhibited /\ ~CurBeyondHmd
    /\ kind = "RA_MAINTAIN"

\* C3: the HMD filter terminates an RA: with a previous RA_* state and
\* d_cpa > HMD_RA_M the call returns CLEAR, whatever tau, relative altitude,
\* relative vertical rate and own altitude are.
C3_HmdTerminatesRa ==
    (Called /\ IsRAName(prev_state) /\ CurBeyondHmd) => kind = "CLEAR"

\* C3 witness: a previous RA above the inhibit altitude, inside the outer gate and
\* inside the RA envelope, with d_cpa > HMD_RA_M: the call returned CLEAR.
C3_Witness ==
    /\ Called /\ IsRAName(prev_state) /\ CurBeyondHmd
    /\ ~CurOuterClear /\ ~CurInhibited /\ CurRaEnvelope
    /\ kind = "CLEAR"

\* the four conditions of the outer gate, on the geometry of the call
BeyondClearRange == CurGeom.d_cpa.n > 13 * 1852 * CurGeom.d_cpa.d
TauBeyondMinute == CurGeom.tau.n > 60 * CurGeom.tau.d
AltBeyondGate == rel_alt_ft > 4000 \/ rel_alt_ft < 0 - 4000
Diverging == CurGeom.tau.n < 0

\* C11: whenever d_cpa > 13 NM, or tau > 60 s, or |rel_alt| > 4000 ft, or tau < 0,
\* classify_contact returns CLEAR, for every own altitude and every previous state.
C11_OuterClearGate ==
    (Called /\ (BeyondClearRange \/ TauBeyondMinute \/ AltBeyondGate \/ Diverging))
        => kind = "CLEAR"

\* C11 witness: a diverging contact, close and co-altitude, with a previous RA_CLIMB
\* above the inhibit altitude, has been classified CLEAR.
C11_Witness ==
    /\ Called /\ Diverging
    /\ ~BeyondClearRange /\ ~AltBeyondGate
    /\ CurGeom.d_cpa.n = 0 /\ rel_alt_ft = 0
    /\ prev_state = "RA_CLIMB" /\ own_alt_ft > RA_TOTAL_INHIBIT_ALT_FT
    /\ kind = "CLEAR"

----------------------------------------------------------------------------
(* Worlds and direct calls of World._coordinate_vertical_ras. *)

MaxAircraft == 3
MaxCoordRuns == 2

\* an Aircraft as its constructor leaves it, but for the fields given
NewAircraft(pos, vel, alt, climb, k, equipped, grounded) ==
    [pos_m |-> pos, vel_mps |-> vel, alt_ft |-> alt, climb_fps |-> climb,
     on_ground |-> grounded, tcas_equipped |-> equipped,
     advisory |-> Advisory(k, <<"test">>),
     control_mode |-> "AUTO", manual_cmd |-> "None", target_climb_fps |-> None]

CoordAlts == {10000, 10500, 11000}

\* (kind, tcas_equipped, on_ground) of an aircraft of a world of n aircraft: every
\* kind and every flag for n <= 2, a selection for larger worlds
CoordTemplates(n) ==
    IF n <= 2
    THEN AdvisoryType \X BOOLEAN \X BOOLEAN
    ELSE { <<"TA", TRUE, FALSE>>, <<"RA_CLIMB", TRUE, FALSE>>,
           <<"RA_DESCEND", TRUE, FALSE>>, <<"RA_REDUCE_CLIMB", TRUE, FALSE>>,
           <<"RA_DO_NOT_DESCEND", TRUE, TRUE>>, <<"RA_INCREASE_DESCEND", FALSE, FALSE>> }

CoordAircraft(n) ==
    { NewAircraft(<<0, 0>>, <<0, 0>>, alt, 0, t[1], t[2], t[3]) :
        alt \in CoordAlts, t \in CoordTemplates(n) }

SeqsOfLen(S, n) == [1..n -> S]

AdvisoriesOf(acs) == [i \in 1..Len(acs) |-> acs[i].advisory]

CoordInit ==
    /\ \E n \in 1..MaxAircraft : ac \in SeqsOfLen(CoordAircraft(n), n)
    /\ time_s = 0 /\ paused = FALSE /\ manual_override = FALSE
    /\ pc = "idle" /\ rels_by_own = << >> /\ phases = << >>
    /\ cpos = None /\ coord_runs = 0 /\ after_first = << >>
    /\ log_writer = FALSE /\ call = None /\ steps = 0
    /\ selected = << >> /\ log_rows = << >>

\* the resolver is called on the world
CoordinateCall ==
    /\ pc = "idle" /\ cpos = None /\ coord_runs < MaxCoordRuns
    /\ cpos' = Some(0)
    /\ UNCHANGED <<ac, time_s, paused, manual_override, pc, rels_by_own, phases,
                   coord_runs, after_first>>
    /\ UNCHANGED <<stepVars, classifyVars, logicVars, auxVars>>

\* one pass of the loop body
CoordinatePair ==
    /\ cpos # None /\ Val(cpos) < Len(PairsOf(Len(ac)))
    /\ LET p == PairsOf(Len(ac))[Val(cpos) + 1]
       IN  ac' = CoordinatePairOf(ac, p[1], p[2])
    /\ cpos' = Some(Val(cpos) + 1)
    /\ UNCHANGED <<time_s, paused, manual_override, pc, rels_by_own, phases,
                   coord_runs, after_first>>
    /\ UNCHANGED <<stepVars, classifyVars, logicVars, auxVars>>

\* the loops are over: the resolver returns
CoordinateReturn ==
    /\ cpos # None /\ Val(cpos) = Len(PairsOf(Len(ac)))
    /\ cpos' = None
    /\ coord_runs' = coord_runs + 1
    /\ after_first' = IF coord_runs = 0 THEN AdvisoriesOf(ac) ELSE after_first
    /\ UNCHANGED <<ac, time_s, paused, manual_override, pc, rels_by_own, phases>>
    /\ UNCHANGED <<stepVars, classifyVars, logicVars, auxVars>>

CoordNext == CoordinateCall \/ CoordinatePair \/ CoordinateReturn

\* a World, with no classifier call and no aggregator call
CoordStart == CoordInit /\ ClassifyIdle /\ LogicIdle /\ MonitorInit /\ CommandIdle

SpecCoord == CoordStart /\ [][CoordNext]_vars

----------------------------------------------------------------------------
(* Properties of the coordination resolver. *)

\* the resolver's vertical sense of an advisory kind: +1 up, -1 down, 0 neutral
SenseOf(k) ==
    IF k \in {"RA_CLIMB", "RA_INCREASE_CLIMB", "RA_CROSSING_CLIMB", "RA_DO_NOT_DESCEND"}
    THEN 1
    ELSE IF k \in {"RA_DESCEND", "RA_INCREASE_DESCEND", "RA_CROSSING_DESCEND",
                   "RA_DO_NOT_CLIMB"}
    THEN 0 - 1
    ELSE 0

\* tcas_equipped, not on_ground and holding an RA_* advisory
Cooperating(a) == a.tcas_equipped /\ ~a.on_ground /\ IsRAName(a.advisory.kind)

\* two cooperating aircraft command the same non-neutral sense
SameSensePair(a, b) ==
    /\ Cooperating(a) /\ Cooperating(b)
    /\ SenseOf(a.advisory.kind) # 0
    /\ SenseOf(a.advisory.kind) = SenseOf(b.advisory.kind)

ResolverReturned == coord_runs >= 1 /\ cpos = None

NoSameSensePair ==
    \A i, j \in 1..Len(ac) : i < j => ~SameSensePair(ac[i], ac[j])

\* the cooperating aircraft that hold an RA of non-neutral sense
NonNeutral == { i \in 1..Len(ac) : Cooperating(ac[i]) /\ SenseOf(ac[i].advisory.kind) # 0 }

\* C4 as stated: after the resolver has run, no two cooperating aircraft command
\* the same non-neutral sense, in a world with any number of aircraft.
C4_Original == ResolverReturned => NoSameSensePair

\* C4 amended: after the resolver has run, no two cooperating aircraft command the
\* same non-neutral sense, in a world with any number of aircraft of which at most
\* two are cooperating with an RA of non-neutral sense.
C4_CoordinatedAmended ==
    (ResolverReturned /\ Cardinality(NonNeutral) <= 2) => NoSameSensePair

\* C4 witness: the resolver has returned in a world of three aircraft after
\* flipping one of the only two cooperating aircraft of non-neutral sense.
C4_Witness ==
    /\ ResolverReturned /\ coord_runs = 1 /\ Len(ac) = 3
    /\ Cardinality(NonNeutral) = 2
    /\ \E i \in NonNeutral : Len(ac[i].advisory.reason) = 2
    /\ NoSameSensePair

\* the loop body has run for one pair
PairStep == cpos # None /\ cpos' # None /\ Val(cpos') = Val(cpos) + 1
CurPair == PairsOf(Len(ac))[Val(cpos) + 1]

\* aircraft t of the pair is replaced by its coordinated opposite, with the note
FlippedTo(t) ==
    /\ ac[t].advisory.kind \in DOMAIN RA_FLIP_MAP
    /\ ac'[t].advisory.kind = RA_FLIP_MAP[ac[t].advisory.kind]
    /\ ac'[t].advisory.reason = Append(ac[t].advisory.reason, FLIP_NOTE)
    /\ \A x \in 1..Len(ac) : x # t => ac'[x] = ac[x]

\* C7: when the loop body runs for a pair of cooperating aircraft of equal non-zero
\* sense, exactly the higher aircraft (one of the two on equal altitudes) is replaced
\* by its coordinated opposite and the other is unchanged; if either sense is
\* neutral or the senses differ, no advisory changes.
C7_FlipHigher ==
    [][PairStep =>
        LET i == CurPair[1]
            j == CurPair[2]
        IN  IF SameSensePair(ac[i], ac[j])
            THEN \/ (ac[i].alt_ft >= ac[j].alt_ft /\ FlippedTo(i))
                 \/ (ac[j].alt_ft >= ac[i].alt_ft /\ FlippedTo(j))
            ELSE ac' = ac]_vars

\* C7 witness: the loop body has run for the first pair, whose second aircraft is
\* the higher one: it carries the flip note and the first aircraft does not.
C7_Witness ==
    /\ cpos = Some(1) /\ coord_runs = 0
    /\ ac[1].alt_ft < ac[2].alt_ft
    /\ ac[2].advisory.reason = <<"test", FLIP_NOTE>>
    /\ ac[1].advisory.reason = <<"test">>
    /\ SenseOf(ac[1].advisory.kind) = 0 - SenseOf(ac[2].advisory.kind)

\* C8 as stated: a second run of the resolver, directly after the first, changes
\* no advisory (neither kind nor reason) of any aircraft.
C8_Original ==
    (coord_runs >= 2 /\ cpos = None) => AdvisoriesOf(ac) = after_first

\* C8 amended: a second run of the resolver, directly after the first, changes no
\* advisory (neither kind nor reason) of any aircraft when at most two aircraft are
\* cooperating with an RA of non-neutral sense.
C8_IdempotentAmended ==
    (coord_runs >= 2 /\ cpos = None /\ Cardinality(NonNeutral) <= 2)
        => AdvisoriesOf(ac) = after_first

\* C8 witness: the second run has returned in a world whose first run flipped an
\* aircraft, and the advisories are those the first run left.
C8_Witness ==
    /\ coord_runs = 2 /\ cpos = None
    /\ Cardinality(NonNeutral) = 2
    /\ \E i \in NonNeutral : ac[i].advisory.reason = <<"test", FLIP_NOTE>>
    /\ AdvisoriesOf(ac) = after_first

----------------------------------------------------------------------------
(* tcas/models.py, tcas/sensing.py, tcas/tracking.py *)

\* Aircraft.step(dt): climb_fps is in feet per minute here, dt in seconds
AircraftStep(a, dt) ==
    [a EXCEPT !.pos_m = <<a.pos_m[1] + a.vel_mps[1] * dt, a.pos_m[2] + a.vel_mps[2] * dt>>,
              !.alt_ft = a.alt_ft + (a.climb_fps * dt) \div 60]

\* Sensing.altitude_bias_ft.get(cs, 0.0): World builds Sensing() with no bias
altitude_bias_ft(i) == 0

\* Sensing.snapshot: a clone of every aircraft, its altitude plus the bias
snapshot(world_aircraft) ==
    [i \in 1..Len(world_aircraft) |->
        [world_aircraft[i] EXCEPT !.alt_ft = world_aircraft[i].alt_ft + altitude_bias_ft(i)]]

\* mutant: own minus intruder
Track_own_minus_intruder(own, oth) ==
    << <<own.pos_m[1] - oth.pos_m[1], own.pos_m[2] - oth.pos_m[2]>>,
       <<own.vel_mps[1] - oth.vel_mps[1], own.vel_mps[2] - oth.vel_mps[2]>>,
       own.alt_ft - oth.alt_ft,
       own.climb_fps - oth.climb_fps >>

\* the tuple build_tracks stores for the pair (own, oth)
Track(own, oth) ==
    << <<oth.pos_m[1] - own.pos_m[1], oth.pos_m[2] - own.pos_m[2]>>,
       <<oth.vel_mps[1] - own.vel_mps[1], oth.vel_mps[2] - own.vel_mps[2]>>,
       oth.alt_ft - own.alt_ft,
       oth.climb_fps - own.climb_fps >>

\* the numbers 1..n without i, in order
Others(n, i) == SelectSeq([k \in 1..n |-> k], LAMBDA k : k # i)

\* Tracking.build_tracks: for every ownship the tracks of all the others
build_tracks(traffic) ==
    [i \in 1..Len(traffic) |->
        [k \in 1..(Len(traffic) - 1) |->
            [cs |-> Others(Len(traffic), i)[k],
             track |-> Track(traffic[i], traffic[Others(Len(traffic), i)[k]])]]]

----------------------------------------------------------------------------
(* tcas/advisory.py: AdvisoryLogic.step.  A call either returns a value or  *)
(* raises an exception.                                                     *)

Returned(v) == [ok |-> TRUE, value |-> Some(v), error |-> ""]
Raised(e) == [ok |-> FALSE, value |-> None, error |-> e]

\* the body of the loop for one item of rels.  The tuple is unpacked into three
\* names, so a tuple of another length raises ValueError; classify_contact is then
\* called without rel_climb_fps, which its signature requires, so the call raises
\* TypeError.
LoopBody(own, item) ==
    IF Len(item.track) # 3
    THEN Raised("ValueError")
    ELSE Raised("TypeError")

RECURSIVE LoopFrom(_, _, _, _, _)
\* the loop over rels.items() from the k-th item on
LoopFrom(own, rels, k, ra, ta) ==
    IF k > Len(rels)
    THEN [ok |-> TRUE, ra_threats |-> ra, ta_threats |-> ta]
    ELSE LET b == LoopBody(own, rels[k])
         IN  IF ~b.ok THEN b
             ELSE IF IsRAName(Val(b.value).kind)
             THEN LoopFrom(own, rels, k + 1, Append(ra, Val(b.value)), ta)
             ELSE IF Val(b.value).kind = "TA"
             THEN LoopFrom(own, rels, k + 1, ra, Append(ta, Val(b.value)))
             ELSE LoopFrom(own, rels, k + 1, ra, ta)

\* the key (tau, d_cpa) of e is smaller than that of f
KeyLess(e, f) ==
    \/ LtQ(e.tau, f.tau)
    \/ (~LtQ(f.tau, e.tau) /\ LtQ(e.d_cpa, f.d_cpa))

\* min(threats, key = (tau, d_cpa)): the first entry no other entry is below
Primary(threats) ==
    threats[CHOOSE i \in 1..Len(threats) :
                /\ \A j \in 1..Len(threats) : ~KeyLess(threats[j], threats[i])
                /\ \A j \in 1..(i - 1) : KeyLess(threats[i], threats[j])]

\* AdvisoryLogic.step(own, rels)
AdvisoryLogicStep(own, rels) ==
    LET loop == LoopFrom(own, rels, 1, << >>, << >>)
    IN  IF ~loop.ok THEN loop
        ELSE IF loop.ra_threats # << >>
        THEN Returned(Advisory(Primary(loop.ra_threats).kind,
                               <<Primary(loop.ra_threats).kind, "primary",
                                 Primary(loop.ra_threats).cs>>))
        ELSE IF loop.ta_threats # << >>
        THEN Returned(Advisory("TA", <<"TA", "primary", Primary(loop.ta_threats).cs>>))
        ELSE Returned(Advisory("CLEAR", <<"Clear (no threats)">>))

----------------------------------------------------------------------------
(* tcas/advisory.py: the Table-3 vertical rate bands, in feet per minute,   *)
(* and apply_command.                                                       *)

VS_CLIMB_MIN_FPS == 1500
VS_CLIMB_MAX_FPS == 2000
VS_CLIMB_NOMINAL_FPS == 1800
VS_DESC_MIN_FPS == -2000
VS_DESC_MAX_FPS == -1500
VS_DESC_NOMINAL_FPS == -1800
VS_MAINTAIN_MAX_UP_FPS == 4400
VS_MAINTAIN_MIN_DOWN_FPS == -4400
VS_INCREASE_CLIMB_FPS == 2500
VS_INCREASE_DESCEND_FPS == -2500
VS_REDUCED_LIMIT_FPS == 500

Max(a, b) == IF a >= b THEN a ELSE b
Min(a, b) == IF a <= b THEN a ELSE b

\* own.target_climb_fps or nominal: None and 0.0 are both falsy
OrElse(target, nominal) ==
    IF target = None THEN nominal
    ELSE IF Val(target) = 0 THEN nominal ELSE Val(target)

\* mutant: the rate is set to the target, whatever the current rate is
ManualOverride_set_target(own) ==
    CASE own.manual_cmd = "CLIMB" ->
           [own EXCEPT !.climb_fps = OrElse(own.target_climb_fps, VS_CLIMB_NOMINAL_FPS)]
      [] own.manual_cmd = "DESCEND" ->
           [own EXCEPT !.climb_fps = OrElse(own.target_climb_fps, VS_DESC_NOMINAL_FPS)]
      [] own.manual_cmd = "MAINTAIN" ->
           [own EXCEPT !.climb_fps = (own.climb_fps * 8) \div 10]
      [] OTHER -> own

\* section 0 with override_manual set: the pilot's command is applied
ManualOverride(own) ==
    CASE own.manual_cmd = "CLIMB" ->
           [own EXCEPT !.climb_fps =
               Max(own.climb_fps, OrElse(own.target_climb_fps, VS_CLIMB_NOMINAL_FPS))]
      [] own.manual_cmd = "DESCEND" ->
           [own EXCEPT !.climb_fps =
               Min(own.climb_fps, OrElse(own.target_climb_fps, VS_DESC_NOMINAL_FPS))]
      [] own.manual_cmd = "MAINTAIN" ->
           [own EXCEPT !.climb_fps = (own.climb_fps * 8) \div 10]
      [] OTHER -> own

\* the final else branch: no RA, trimming towards the pilot's command
ManualTrim(own) ==
    IF own.control_mode = "MANUAL" /\ own.manual_cmd # "None"
    THEN CASE own.manual_cmd = "CLIMB" ->
                [own EXCEPT !.climb_fps =
                    (own.climb_fps * 7
                       + OrElse(own.target_climb_fps, VS_CLIMB_NOMINAL_FPS) * 3) \div 10]
           [] own.manual_cmd = "DESCEND" ->
                [own EXCEPT !.climb_fps =
                    (own.climb_fps * 7
                       + OrElse(own.target_climb_fps, VS_DESC_NOMINAL_FPS) * 3) \div 10]
           [] own.manual_cmd = "MAINTAIN" ->
                [own EXCEPT !.climb_fps = (own.climb_fps * 9) \div 10]
           [] OTHER -> own
    ELSE own

\* mutant: RA_MAINTAIN levels the aircraft off
MaintainRate_level_off(climb) == 0

\* RA_MAINTAIN: the rate is clamped into the maintain band of its sign
MaintainRate(climb) ==
    IF climb > 0 THEN Max(Min(climb, VS_MAINTAIN_MAX_UP_FPS), VS_CLIMB_MIN_FPS)
    ELSE IF climb < 0 THEN Min(Max(climb, VS_MAINTAIN_MIN_DOWN_FPS), VS_DESC_MAX_FPS)
    ELSE climb

\* RA_DO_NOT_CLIMB: a climb is stopped, a descent is limited to 500 fpm
DoNotClimbRate(climb) ==
    IF climb > 0 THEN 0
    ELSE IF climb < -VS_REDUCED_LIMIT_FPS THEN -VS_REDUCED_LIMIT_FPS ELSE climb

\* mutant: a descent is limited to 500 fpm but not stopped
DoNotDescendRate_limit_only(climb) ==
    IF climb < -VS_REDUCED_LIMIT_FPS THEN -VS_REDUCED_LIMIT_FPS
    ELSE IF climb > VS_REDUCED_LIMIT_FPS THEN VS_REDUCED_LIMIT_FPS ELSE climb

\* RA_DO_NOT_DESCEND: a descent is stopped, a climb is limited to 500 fpm
DoNotDescendRate(climb) ==
    IF climb < 0 THEN 0
    ELSE IF climb > VS_REDUCED_LIMIT_FPS THEN VS_REDUCED_LIMIT_FPS ELSE climb

\* mutant: the crossing RAs keep the current rate
AutoRate_no_crossing(k, climb) ==
    CASE k = "RA_CLIMB" -> VS_CLIMB_NOMINAL_FPS
      [] k = "RA_DESCEND" -> VS_DESC_NOMINAL_FPS
      [] k = "RA_MAINTAIN" -> MaintainRate(climb)
      [] OTHER -> climb

\* section 2: the vertical rate of the advisory kind k
AutoRate(k, climb) ==
    CASE k \in {"RA_CLIMB", "RA_CROSSING_CLIMB"} -> VS_CLIMB_NOMINAL_FPS
      [] k \in {"RA_DESCEND", "RA_CROSSING_DESCEND"} -> VS_DESC_NOMINAL_FPS
      [] k = "RA_INCREASE_CLIMB" ->
           Min(Max(VS_INCREASE_CLIMB_FPS, climb), VS_MAINTAIN_MAX_UP_FPS)
      [] k = "RA_INCREASE_DESCEND" ->
           Max(Min(VS_INCREASE_DESCEND_FPS, climb), VS_MAINTAIN_MIN_DOWN_FPS)
      [] k = "RA_REDUCE_CLIMB" ->
           IF climb > VS_REDUCED_LIMIT_FPS THEN VS_REDUCED_LIMIT_FPS ELSE climb
      [] k = "RA_REDUCE_DESCEND" ->
           IF climb < -VS_REDUCED_LIMIT_FPS THEN -VS_REDUCED_LIMIT_FPS ELSE climb
      [] k = "RA_DO_NOT_CLIMB" -> DoNotClimbRate(climb)
      [] k = "RA_DO_NOT_DESCEND" -> DoNotDescendRate(climb)
      [] k = "RA_MAINTAIN" -> MaintainRate(climb)
      [] OTHER -> climb

\* mutant: an active RA is applied although the pilot's command is not
apply_command_ra_over_manual(own, override_manual) ==
    IF own.control_mode = "MANUAL" /\ own.manual_cmd # "None" /\ override_manual
    THEN ManualOverride(own)
    ELSE IF ~own.tcas_equipped
    THEN IF IsRAName(own.advisory.kind)
         THEN [own EXCEPT !.advisory = Advisory("TA", own.advisory.reason)]
         ELSE own
    ELSE IF IsRAName(own.advisory.kind)
    THEN [own EXCEPT !.climb_fps = AutoRate(own.advisory.kind, own.climb_fps)]
    ELSE ManualTrim(own)

\* apply_command(own, override_manual)
apply_command(own, override_manual) ==
    IF own.control_mode = "MANUAL" /\ own.manual_cmd # "None"
    THEN IF override_manual THEN ManualOverride(own) ELSE own
    ELSE IF ~own.tcas_equipped
    THEN IF IsRAName(own.advisory.kind)
         THEN [own EXCEPT !.advisory = Advisory("TA", own.advisory.reason)]
         ELSE own
    ELSE IF IsRAName(own.advisory.kind)
    THEN [own EXCEPT !.climb_fps = AutoRate(own.advisory.kind, own.climb_fps)]
    ELSE ManualTrim(own)

----------------------------------------------------------------------------
(* sim/world.py: World.step, phase by phase.  pc is the position inside the  *)
(* call: "idle" outside it, "raised" once an exception has left it.          *)

MaxWorldAircraft == 2
MaxSteps == 2

Dts == {1, 2}

RECURSIVE AggregateFrom(_, _, _, _)
\* phase 3 from the i-th ownship on: own.advisory = self.logic.step(own, rels);
\* sel collects the kinds returned so far
AggregateFrom(acs, rels, i, sel) ==
    IF i > Len(acs) THEN [ok |-> TRUE, ac |-> acs, selected |-> sel, error |-> ""]
    ELSE LET r == AdvisoryLogicStep(acs[i], rels[i])
         IN  IF ~r.ok THEN [ok |-> FALSE, ac |-> acs, selected |-> sel, error |-> r.error]
             ELSE AggregateFrom([acs EXCEPT ![i].advisory = Val(r.value)], rels, i + 1,
                                Append(sel, Val(r.value).kind))

\* one pass of the logging loop, for the k-th track of ownship i: the item is
\* unpacked into three names, the monitor is updated on the true relative altitude
\* (the altitude biases are 0.0) and one row is written
LogItem(w, i, k) ==
    LET item == w.rels[i][k]
        m == compute_metrics(w.stats, item.track[1], item.track[2],
                             w.ac[item.cs].alt_ft - w.ac[i].alt_ft)
    IN  IF Len(item.track) # 3
        THEN [w EXCEPT !.ok = FALSE, !.error = "ValueError"]
        ELSE [w EXCEPT !.stats = m.stats,
                       !.calls = w.calls + 1,
                       !.rows = Append(w.rows, <<w.time_s, i, item.cs>>)]

RECURSIVE LogFrom(_, _, _)
\* the logging loop of ownship i from its k-th track on
LogFrom(w, i, k) ==
    IF k > Len(w.rels[i]) THEN w
    ELSE IF ~LogItem(w, i, k).ok THEN LogItem(w, i, k)
    ELSE LogFrom(LogItem(w, i, k), i, k + 1)

RECURSIVE CommandFrom(_, _)
\* phase 5 from the i-th ownship on: apply_command, then, with a log writer, the
\* monitor update and the log row of each of its tracks
CommandFrom(w, i) ==
    IF i > Len(w.ac) THEN w
    ELSE LET done == [w EXCEPT !.ac[i] = apply_command(w.ac[i], w.override)]
             logged == IF w.logging THEN LogFrom(done, i, 1) ELSE done
         IN  IF ~logged.ok THEN logged ELSE CommandFrom(logged, i + 1)

\* an Aircraft of a world: the constructor's defaults but for the fields given
WorldAircraft(pos, vel, alt, climb, equipped, mode, cmd, target) ==
    [NewAircraft(pos, vel, alt, climb, "CLEAR", equipped, FALSE)
        EXCEPT !.advisory = Advisory("CLEAR", << >>),
               !.control_mode = mode, !.manual_cmd = cmd, !.target_climb_fps = target]

\* control_mode, manual_cmd, target_climb_fps as the controls of run.py leave them
Controls ==
    { <<"AUTO", "None", None>>, <<"MANUAL", "None", None>>,
      <<"MANUAL", "CLIMB", Some(900)>>, <<"MANUAL", "DESCEND", Some(-900)>>,
      <<"MANUAL", "MAINTAIN", Some(0)>> }

\* the aircraft of a world of n aircraft: every combination for a lone aircraft,
\* three aircraft on converging courses for a larger world
WorldFleet(n) ==
    IF n <= 1
    THEN { WorldAircraft(<<0, 0>>, vel, alt, climb, eq, c[1], c[2], c[3]) :
             vel \in {<<0, 0>>, <<100, 0>>}, alt \in {900, 10000},
             climb \in {-1500, 0, 1500}, eq \in BOOLEAN, c \in Controls }
    ELSE { WorldAircraft(<<0, 0>>, <<100, 0>>, 10000, 0, TRUE, "AUTO", "None", None),
           WorldAircraft(<<3000, 0>>, <<-100, 0>>, 10000, 0, TRUE, "AUTO", "None", None),
           WorldAircraft(<<0, 4000>>, <<0, -100>>, 10600, -1500, FALSE,
                         "MANUAL", "DESCEND", Some(-900)) }

\* World.__init__
WorldInit ==
    /\ \E n \in 0..MaxWorldAircraft : ac \in SeqsOfLen(WorldFleet(n), n)
    /\ log_writer \in BOOLEAN
    /\ time_s = 0 /\ paused = FALSE /\ manual_override = FALSE
    /\ pc = "idle" /\ rels_by_own = << >> /\ phases = << >>
    /\ cpos = None /\ coord_runs = 0 /\ after_first = << >>
    /\ call = None /\ steps = 0
    /\ selected = << >> /\ log_rows = << >>

\* run.py: the space key
TogglePause ==
    /\ pc = "idle"
    /\ paused' = ~paused
    /\ UNCHANGED <<ac, time_s, manual_override, pc, rels_by_own, phases,
                   cpos, coord_runs, after_first, stepVars>>
    /\ UNCHANGED <<classifyVars, logicVars, auxVars>>

\* run.py: the o key
ToggleOverride ==
    /\ pc = "idle"
    /\ manual_override' = ~manual_override
    /\ UNCHANGED <<ac, time_s, paused, pc, rels_by_own, phases,
                   cpos, coord_runs, after_first, stepVars>>
    /\ UNCHANGED <<classifyVars, logicVars, auxVars>>

\* mutant: the pause flag is not looked at
StepCall_ignores_pause ==
    /\ pc = "idle" /\ steps < MaxSteps
    /\ \E dt \in Dts :
         call' = Some([dt |-> dt, time_s |-> time_s, paused |-> paused,
                       rows |-> Len(log_rows), calls |-> monitor_calls])
    /\ steps' = steps + 1
    /\ phases' = << >>
    /\ coord_runs' = 0
    /\ pc' = "integrate"
    /\ UNCHANGED <<ac, time_s, paused, manual_override, rels_by_own, cpos, after_first,
                   log_writer>>
    /\ UNCHANGED <<classifyVars, logicVars, auxVars>>

\* World.step(dt) is called; a paused world returns at once
StepCall ==
    /\ pc = "idle" /\ steps < MaxSteps
    /\ \E dt \in Dts :
         call' = Some([dt |-> dt, time_s |-> time_s, paused |-> paused,
                       rows |-> Len(log_rows), calls |-> monitor_calls])
    /\ steps' = steps + 1
    /\ phases' = << >>
    /\ coord_runs' = 0
    /\ pc' = IF paused THEN "idle" ELSE "integrate"
    /\ UNCHANGED <<ac, time_s, paused, manual_override, rels_by_own, cpos, after_first,
                   log_writer>>
    /\ UNCHANGED <<classifyVars, logicVars, auxVars>>

\* 1) integrate aircraft motion
Integrate ==
    /\ pc = "integrate"
    /\ ac' = [i \in 1..Len(ac) |-> AircraftStep(ac[i], Val(call).dt)]
    /\ phases' = Append(phases, "integrate")
    /\ pc' = "sense_track"
    /\ UNCHANGED <<time_s, paused, manual_override, rels_by_own, cpos, coord_runs,
                   after_first, stepVars>>
    /\ UNCHANGED <<classifyVars, logicVars, auxVars>>

\* 2) build sensing + tracks
SenseTrack ==
    /\ pc = "sense_track"
    /\ rels_by_own' = build_tracks(snapshot(ac))
    /\ phases' = Append(phases, "sense_track")
    /\ pc' = "aggregate"
    /\ UNCHANGED <<ac, time_s, paused, manual_override, cpos, coord_runs,
                   after_first, stepVars>>
    /\ UNCHANGED <<classifyVars, logicVars, auxVars>>

\* 3) compute the advisory of each ownship; an exception leaves World.step
Aggregate ==
    /\ pc = "aggregate"
    /\ ac' = AggregateFrom(ac, rels_by_own, 1, << >>).ac
    /\ selected' = AggregateFrom(ac, rels_by_own, 1, << >>).selected
    /\ phases' = Append(phases, "aggregate")
    /\ pc' = IF AggregateFrom(ac, rels_by_own, 1, << >>).ok THEN "coordinate" ELSE "raised"
    /\ UNCHANGED <<time_s, paused, manual_override, rels_by_own, cpos, coord_runs,
                   after_first, stepVars>>
    /\ UNCHANGED <<classifyVars, logicVars, log_rows, monitorVars, commandVars>>

\* 4) coordinate vertical RAs
Coordinate ==
    /\ pc = "coordinate"
    /\ ac' = coordinate_vertical_ras(ac)
    /\ coord_runs' = coord_runs + 1
    /\ phases' = Append(phases, "coordinate")
    /\ pc' = "command"
    /\ UNCHANGED <<time_s, paused, manual_override, rels_by_own, cpos,
                   after_first, stepVars>>
    /\ UNCHANGED <<classifyVars, logicVars, auxVars>>

\* 5) apply the command of each ownship and log its metrics
Command ==
    /\ pc = "command"
    /\ LET r == CommandFrom([ok |-> TRUE, error |-> "", ac |-> ac, rels |-> rels_by_own,
                             override |-> manual_override, logging |-> log_writer,
                             stats |-> stats, calls |-> monitor_calls,
                             rows |-> log_rows, time_s |-> time_s], 1)
       IN  /\ ac' = r.ac
           /\ stats' = r.stats
           /\ monitor_calls' = r.calls
           /\ log_rows' = r.rows
           /\ pc' = IF r.ok THEN "advance" ELSE "raised"
    /\ phases' = Append(phases, "command")
    /\ UNCHANGED <<time_s, paused, manual_override, rels_by_own, cpos, coord_runs,
                   after_first, stepVars>>
    /\ UNCHANGED <<classifyVars, logicVars, selected, mon_last, commandVars>>

\* self.time_s += dt, and World.step returns
Advance ==
    /\ pc = "advance"
    /\ time_s' = time_s + Val(call).dt
    /\ pc' = "idle"
    /\ UNCHANGED <<ac, paused, manual_override, rels_by_own, phases, cpos, coord_runs,
                   after_first, stepVars>>
    /\ UNCHANGED <<classifyVars, logicVars, auxVars>>

WorldNext ==
    \/ TogglePause \/ ToggleOverride \/ StepCall
    \/ Integrate \/ SenseTrack \/ Aggregate \/ Coordinate \/ Command \/ Advance

\* a World as constructed, with no classifier call and no aggregator call
WorldStart == WorldInit /\ ClassifyIdle /\ LogicIdle /\ MonitorInit /\ CommandIdle

SpecWorld == WorldStart /\ [][WorldNext]_vars

----------------------------------------------------------------------------
(* Properties of World.step. *)

\* an unpaused call of World.step is over: it has returned or raised
StepEnded == call # None /\ ~Val(call).paused /\ pc \in {"idle", "raised"}

FullOrder == <<"integrate", "sense_track", "aggregate", "coordinate", "command">>

\* C5: when an unpaused World.step is over, its phases have run in the order
\* integrate, sense/track, aggregate, coordinate, command, and the coordination
\* resolver has run exactly once, between aggregation and command.
C5_Original == StepEnded => (phases = FullOrder /\ coord_runs = 1)

\* C6: an unpaused World.step(dt) raises no error, whatever the aircraft map: it
\* returns, with every phase run to completion and time_s advanced by exactly dt.
C6_Original ==
    /\ pc # "raised"
    /\ StepEnded => time_s = Val(call).time_s + Val(call).dt

\* C12: the kind the aggregator selected for an ownship at a tick is the
\* previous state handed to classify_contact at the next tick: when an unpaused
\* World.step is over, the aggregator has selected a kind for every aircraft and
\* Aircraft.advisory, the seed of the next tick, holds that kind.
C12_Original ==
    StepEnded =>
        /\ Len(selected) = Len(ac)
        /\ \A i \in 1..Len(ac) : ac[i].advisory.kind = selected[i]

\* the tracks of a world of n aircraft
TrackCount(n) == n * (n - 1)

\* C15: an unpaused World.step over n aircraft updates the proximity monitor
\* n*(n-1) times and appends n*(n-1) log rows, one per ownship and intruder track,
\* all of this tick and after the rows of the earlier ticks.
C15_Original ==
    StepEnded =>
        /\ monitor_calls = Val(call).calls + TrackCount(Len(ac))
        /\ Len(log_rows) = Val(call).rows + TrackCount(Len(ac))
        /\ \A k \in 1..Len(log_rows) :
             k > Val(call).rows => log_rows[k][1] = Val(call).time_s

----------------------------------------------------------------------------
(* One call of AdvisoryLogic.step on an ownship and a dictionary of tracks. *)

MaxIntruders == 2

LogicOwns ==
    { NewAircraft(<<0, 0>>, <<0, 0>>, alt, 0, k, TRUE, FALSE) :
        alt \in {900, 10000}, k \in {"CLEAR", "TA", "RA_CLIMB", "RA_DO_NOT_CLIMB"} }

\* tracks as Tracking.build_tracks stores them (four items), and as the
\* annotation of build_tracks describes them (three items)
LogicTracks ==
    { <<pos, <<-50, 0>>, alt, 0>> :
        pos \in {<<500, 0>>, <<1000, 0>>, <<1500, 0>>, <<25000, 0>>}, alt \in {0, 800} }
    \cup { <<pos, <<-50, 0>>, 0>> : pos \in {<<1000, 0>>, <<25000, 0>>} }

LogicInit ==
    /\ logic_own \in { Some(a) : a \in LogicOwns }
    /\ \E n \in 0..MaxIntruders :
         logic_rels \in { [k \in 1..n |-> [cs |-> k, track |-> f[k]]] :
                            f \in SeqsOfLen(LogicTracks, n) }
    /\ logic_result = None

\* the call
LogicStep ==
    /\ logic_result = None
    /\ logic_result' = Some(AdvisoryLogicStep(Val(logic_own), logic_rels))
    /\ UNCHANGED <<logic_own, logic_rels>>
    /\ UNCHANGED <<classifyVars, worldVars, auxVars>>

\* the state before the call, with no classifier call and no World
LogicStart == LogicInit /\ ClassifyIdle /\ WorldIdle /\ MonitorInit /\ CommandIdle

SpecLogic == LogicStart /\ [][LogicStep]_vars

----------------------------------------------------------------------------
(* Properties of AdvisoryLogic.step. *)

\* every track of the call is one Tracking.build_tracks has stored
BuiltTracks == \A k \in 1..Len(logic_rels) : Len(logic_rels[k].track) = 4

\* what classify_contact gives for the k-th intruder of the call
ThreatKind(k) ==
    classify_contact(Val(logic_own).alt_ft, logic_rels[k].track[1], logic_rels[k].track[2],
                     logic_rels[k].track[3], logic_rels[k].track[4],
                     Val(logic_own).advisory.kind).kind

ThreatGeom(k) == closing_tau_and_dcpA(logic_rels[k].track[1], logic_rels[k].track[2])

RaThreats == { k \in 1..Len(logic_rels) : IsRAName(ThreatKind(k)) }
TaThreats == { k \in 1..Len(logic_rels) : ThreatKind(k) = "TA" }

\* k has the lexicographically smallest (tau, d_cpa) of the threats in S
Smallest(k, S) ==
    /\ k \in S
    /\ \A j \in S : ~KeyLess(ThreatGeom(j), ThreatGeom(k))

LogicDone == logic_result # None /\ BuiltTracks

\* C9: AdvisoryLogic.step returns the kind of the RA threat with the smallest
\* (tau, d_cpa) if an intruder classifies as RA_*, else TA if an intruder classifies
\* as TA, else CLEAR.
C9_Original ==
    LogicDone =>
        /\ Val(logic_result).ok
        /\ IF RaThreats # {}
           THEN \E k \in RaThreats :
                    /\ Smallest(k, RaThreats)
                    /\ Val(Val(logic_result).value).kind = ThreatKind(k)
           ELSE IF TaThreats # {}
           THEN Val(Val(logic_result).value).kind = "TA"
           ELSE Val(Val(logic_result).value).kind = "CLEAR"

\* the escalation order of the advisory kinds
Escalation(k) ==
    CASE k = "CLEAR" -> 0
      [] k = "TA" -> 1
      [] k \in {"RA_MAINTAIN", "RA_DO_NOT_CLIMB", "RA_DO_NOT_DESCEND"} -> 2
      [] k \in {"RA_INCREASE_CLIMB", "RA_INCREASE_DESCEND"} -> 4
      [] OTHER -> 3

\* C10: the kind AdvisoryLogic.step returns is never lower in the escalation order
\* than the kind classify_contact gives for any intruder of the call.
C10_Original ==
    LogicDone =>
        /\ Val(logic_result).ok
        /\ \A k \in 1..Len(logic_rels) :
             Escalation(Val(Val(logic_result).value).kind) >= Escalation(ThreatKind(k))

----------------------------------------------------------------------------
(* Calls on one NMACMonitor. *)

MaxMonitorCalls == 2

MonPos == {<<0, 0>>, <<333, 444>>, <<555, 0>>, <<0, 556>>, <<600, 800>>}
MonVels == {<<0, 0>>, <<-50, 0>>, <<-30, -40>>}
MonAlts == {-301, -300, -299, 0, 299, 300}

\* monitor.compute_metrics(rel_pos_m, rel_vel_mps, rel_alt_ft)
ComputeMetrics ==
    /\ monitor_calls < MaxMonitorCalls
    /\ \E rel_pos \in MonPos, rel_vel \in MonVels, rel_alt \in MonAlts :
         /\ stats' = compute_metrics(stats, rel_pos, rel_vel, rel_alt).stats
         /\ mon_last' = Some([op |-> "compute_metrics",
                              args |-> <<rel_pos, rel_vel, rel_alt>>,
                              ret |-> compute_metrics(stats, rel_pos, rel_vel, rel_alt).ret])
    /\ monitor_calls' = monitor_calls + 1
    /\ UNCHANGED <<classifyVars, worldVars, logicVars, selected, log_rows, commandVars>>

\* monitor.summary(): returns the statistics
Summary ==
    /\ mon_last' = Some([op |-> "summary", args |-> << >>, ret |-> stats])
    /\ UNCHANGED <<stats, monitor_calls>>
    /\ UNCHANGED <<classifyVars, worldVars, logicVars, selected, log_rows, commandVars>>

MonitorNext == ComputeMetrics \/ Summary

\* a fresh monitor, with no classifier call, no World and no other call
MonitorStart == MonitorInit /\ ClassifyIdle /\ WorldIdle /\ LogicIdle /\ CommandIdle

SpecMonitor == MonitorStart /\ [][MonitorNext]_vars

----------------------------------------------------------------------------
(* Properties of the monitor. *)

\* C13: over any sequence of calls on one monitor nmac_count never decreases and
\* min_horz_m and min_vert_ft never increase.
C13_Monotone ==
    [][/\ stats'.nmac_count >= stats.nmac_count
       /\ LeQ(stats'.min_horz_m, stats.min_horz_m)
       /\ LeQ(stats'.min_vert_ft, stats.min_vert_ft)]_vars

\* the latest call was compute_metrics
LastComputed == mon_last # None /\ Val(mon_last).op = "compute_metrics"

\* C13 witness: after a near mid-air collision a second call with larger
\* separations has returned, and the statistics still hold the smaller minima and
\* the count of one.
C13_Witness ==
    /\ monitor_calls = 2 /\ LastComputed
    /\ ~Val(mon_last).ret.is_nmac
    /\ stats.nmac_count = 1
    /\ LtQ(stats.min_horz_m, Frac(Val(mon_last).ret.horiz_m, 1))
    /\ LtQ(stats.min_vert_ft, Frac(Val(mon_last).ret.vert_ft, 1))

\* |rel_pos| < 0.3 NM = 555.6 m, on the squares of the lengths in decimetres
WithinNmacHorz(p) == 100 * (p[1] * p[1] + p[2] * p[2]) < 5556 * 5556
WithinNmacVert(alt) == alt < 300 /\ alt > 0 - 300

\* C14: compute_metrics returns is_nmac true iff |rel_pos| < NMAC_HORZ_M and
\* |rel_alt| < NMAC_VERT_FT, whatever rel_vel is, and the call adds exactly 1 to
\* nmac_count when is_nmac is true and 0 otherwise.
C14_NmacFlag ==
    [][monitor_calls' = monitor_calls + 1 =>
         /\ Val(mon_last').ret.is_nmac =
              (WithinNmacHorz(Val(mon_last').args[1]) /\ WithinNmacVert(Val(mon_last').args[3]))
         /\ stats'.nmac_count =
              stats.nmac_count + (IF Val(mon_last').ret.is_nmac THEN 1 ELSE 0)]_vars

\* C14 witness: two calls, both near mid-air collisions with a closing intruder,
\* have been counted.
C14_Witness ==
    /\ monitor_calls = 2 /\ LastComputed
    /\ Val(mon_last).ret.is_nmac
    /\ Val(mon_last).args[2] = <<-30, -40>>
    /\ Val(mon_last).args[1] = <<333, 444>> /\ Val(mon_last).args[3] = -299
    /\ stats.nmac_count = 2

----------------------------------------------------------------------------
(* One call of apply_command on an aircraft. *)

CmdClimbs == {-5000, -2000, -1500, -600, 0, 600, 1200, 1500, 3000, 5000}

\* control_mode, manual_cmd, target_climb_fps
CmdControls ==
    { <<"AUTO", "None", None>>, <<"MANUAL", "None", None>>,
      <<"MANUAL", "CLIMB", None>>, <<"MANUAL", "CLIMB", Some(0)>>,
      <<"MANUAL", "CLIMB", Some(900)>>, <<"MANUAL", "CLIMB", Some(1200)>>,
      <<"MANUAL", "DESCEND", None>>, <<"MANUAL", "DESCEND", Some(-900)>>,
      <<"MANUAL", "MAINTAIN", Some(0)>> }

CommandInit ==
    /\ cmd_own \in
         { Some([NewAircraft(<<0, 0>>, <<0, 0>>, 10000, climb, k, eq, FALSE)
                    EXCEPT !.control_mode = c[1], !.manual_cmd = c[2],
                           !.target_climb_fps = c[3]]) :
             climb \in CmdClimbs, k \in AdvisoryType, eq \in BOOLEAN, c \in CmdControls }
    /\ cmd_override \in BOOLEAN
    /\ cmd_after = None

\* the call
ApplyCommand ==
    /\ cmd_after = None
    /\ cmd_after' = Some(apply_command(Val(cmd_own), cmd_override))
    /\ UNCHANGED <<cmd_own, cmd_override>>
    /\ UNCHANGED <<classifyVars, worldVars, logicVars, selected, log_rows, monitorVars>>

\* the state before the call, with no classifier call, no World and no other call
CommandStart == CommandInit /\ ClassifyIdle /\ WorldIdle /\ LogicIdle /\ MonitorInit

SpecCommand == CommandStart /\ [][ApplyCommand]_vars

----------------------------------------------------------------------------
(* Properties of apply_command. *)

Applied == cmd_after # None
Before == Val(cmd_own)
After == Val(cmd_after)

\* the pilot has given a command: MANUAL mode with a manual command set
ManualInput == Before.control_mode = "MANUAL" /\ Before.manual_cmd # "None"

\* a target is given / given and not zero
HasTarget == Before.target_climb_fps # None
HasNonZeroTarget == HasTarget /\ Val(Before.target_climb_fps) # 0

\* the rate a manual CLIMB / DESCEND asks for as the claim words it: the target,
\* or the nominal rate when no target is given
AskedClimb == IF HasTarget THEN Val(Before.target_climb_fps) ELSE 1800
AskedDescend == IF HasTarget THEN Val(Before.target_climb_fps) ELSE 0 - 1800

\* the rate a manual CLIMB / DESCEND asks for in the code: a zero target counts
\* as no target
EffectiveClimb == IF HasNonZeroTarget THEN Val(Before.target_climb_fps) ELSE 1800
EffectiveDescend == IF HasNonZeroTarget THEN Val(Before.target_climb_fps) ELSE 0 - 1800

Overridden == Applied /\ ManualInput /\ cmd_override

\* C16 as stated: under manual override the rate after apply_command is the
\* target rate (nominal +1800 / -1800 fpm without a target) and the advisory plays
\* no part.  Violated: the code takes the larger (CLIMB) or smaller (DESCEND) of
\* the current rate and the target, e.g. 3000 fpm with CLIMB to 900 fpm stays 3000.
C16_Original ==
    Overridden =>
        /\ Before.manual_cmd = "CLIMB" => After.climb_fps = AskedClimb
        /\ Before.manual_cmd = "DESCEND" => After.climb_fps = AskedDescend
        /\ After.advisory = Before.advisory

\* C16 amended: under manual override (control_mode MANUAL, a manual command set,
\* override_manual true) the rate after apply_command is determined by the manual
\* command, the target and the current rate alone: CLIMB gives the larger of the
\* current rate and the target rate, DESCEND the smaller of the two, the nominal
\* +1800 / -1800 fpm standing in for a target that is absent or zero, and MAINTAIN
\* gives 0.8 times the current rate; the advisory is neither used nor changed.
C16_ManualOverrideAmended ==
    Overridden =>
        /\ Before.manual_cmd = "CLIMB" =>
              After.climb_fps = IF Before.climb_fps >= EffectiveClimb
                                THEN Before.climb_fps ELSE EffectiveClimb
        /\ Before.manual_cmd = "DESCEND" =>
              After.climb_fps = IF Before.climb_fps <= EffectiveDescend
                                THEN Before.climb_fps ELSE EffectiveDescend
        /\ Before.manual_cmd = "MAINTAIN" =>
              10 * After.climb_fps = 8 * Before.climb_fps
        /\ After.advisory = Before.advisory

\* a manual CLIMB to 900 fpm under an RA_DESCEND, from 3000 fpm: the rate stays
C16_Witness ==
    /\ Overridden
    /\ Before.manual_cmd = "CLIMB"
    /\ Before.target_climb_fps = Some(900)
    /\ Before.climb_fps = 3000
    /\ Before.advisory.kind = "RA_DESCEND"
    /\ Before.tcas_equipped
    /\ After.climb_fps = 3000

\* C17: after apply_command on an aircraft that is not TCAS-equipped, the advisory
\* kind is not an RA_* kind, and the rate is the rate before the call unless the
\* pilot's own command was applied; in every control mode.  Violated: with
\* control_mode MANUAL and a manual command set, the call returns before the
\* downgrade and the RA label stays.
C17_Original ==
    (Applied /\ ~Before.tcas_equipped) =>
        /\ ~IsRAName(After.advisory.kind)
        /\ ~(ManualInput /\ cmd_override) => After.climb_fps = Before.climb_fps

NoManualInput == ~ManualInput

ClimbRA == Before.advisory.kind \in {"RA_CLIMB", "RA_CROSSING_CLIMB"}
DescendRA == Before.advisory.kind \in {"RA_DESCEND", "RA_CROSSING_DESCEND"}

\* C18: for a TCAS-equipped aircraft without manual input, apply_command sets the
\* rate to +1800 fpm for RA_CLIMB and RA_CROSSING_CLIMB and to -1800 fpm for
\* RA_DESCEND and RA_CROSSING_DESCEND, whatever the rate before.
C18_NominalRate ==
    (Applied /\ Before.tcas_equipped /\ NoManualInput) =>
        /\ ClimbRA => After.climb_fps = 1800
        /\ DescendRA => After.climb_fps = 0 - 1800

\* a crossing climb from a 5000 fpm descent
C18_Witness ==
    /\ Applied /\ Before.tcas_equipped /\ NoManualInput
    /\ Before.advisory.kind = "RA_CROSSING_CLIMB"
    /\ Before.climb_fps = 0 - 5000
    /\ After.climb_fps = 1800

\* C19: RA_MAINTAIN applied to a TCAS-equipped aircraft in AUTO mode with a
\* non-zero rate leaves the rate at zero.  Violated: the rate is clamped into the
\* maintain band of its sign, 1200 fpm (20 ft/s) becomes 1500 fpm (25 ft/s).
C19_Original ==
    (/\ Applied /\ Before.tcas_equipped /\ Before.control_mode = "AUTO"
     /\ Before.advisory.kind = "RA_MAINTAIN" /\ Before.climb_fps # 0)
        => After.climb_fps = 0

InUpBand(r) == 1500 <= r /\ r <= 4400
InDownBand(r) == 0 - 4400 <= r /\ r <= 0 - 1500

Clamped ==
    /\ Before.climb_fps > 0 => InUpBand(After.climb_fps)
    /\ Before.climb_fps < 0 => InDownBand(After.climb_fps)
    /\ Before.climb_fps = 0 => After.climb_fps = 0

NoRA == ~IsRAName(Before.advisory.kind)

\* C21: with a CLEAR or TA advisory and no manual input, one apply_command call
\* multiplies the rate by 0.98.  Violated: the branch reached when no RA is active
\* only trims in MANUAL mode with a manual command; the rate is left as it was.
C21_Original ==
    (Applied /\ Before.advisory.kind \in {"CLEAR", "TA"} /\ NoManualInput)
        => 100 * After.climb_fps = 98 * Before.climb_fps

\* C22: in MANUAL mode with a manual command, override_manual false and no RA
\* active, the rate after the call is 0.7 times the rate before plus 0.3 times the
\* target (nominal rate without a target), for CLIMB and DESCEND.  Violated: the
\* manual section returns first and changes nothing when override_manual is false.
C22_Original ==
    (Applied /\ ManualInput /\ ~cmd_override /\ NoRA) =>
        /\ Before.manual_cmd = "CLIMB" =>
              10 * After.climb_fps = 7 * Before.climb_fps + 3 * AskedClimb
        /\ Before.manual_cmd = "DESCEND" =>
              10 * After.climb_fps = 7 * Before.climb_fps + 3 * AskedDescend

----------------------------------------------------------------------------
(* Properties of World.step, continued. *)

\* a call of World.step on a paused world
PausedStepCall == steps' = steps + 1 /\ paused

\* C23: World.step on a paused world is a no-op: it returns at once, no aircraft
\* changes (position, altitude, vertical rate, advisory), time_s does not advance,
\* the NMAC statistics are unchanged and no log row is written.
C23_PausedNoOp ==
    [][PausedStepCall =>
          /\ pc' = "idle"
          /\ ac' = ac
          /\ time_s' = time_s
          /\ stats' = stats /\ monitor_calls' = monitor_calls
          /\ log_rows' = log_rows]_vars

\* a paused call has returned on a world of two aircraft, one of them climbing,
\* that an unpaused call would have moved
C23_Witness ==
    /\ call # None /\ Val(call).paused /\ pc = "idle"
    /\ Len(ac) = 2
    /\ \E i \in 1..Len(ac) : ac[i].climb_fps # 0
    /\ time_s = Val(call).time_s

----------------------------------------------------------------------------
(* tcas/advisory.py: the vertical sense table of the advisory module (the    *)
(* names carry the prefix ADV_, world.py defines the same names).            *)

ADV_UP_RAS ==
    {"RA_CLIMB", "RA_INCREASE_CLIMB", "RA_REDUCE_DESCEND", "RA_CROSSING_CLIMB",
     "RA_DO_NOT_DESCEND"}
ADV_DOWN_RAS ==
    {"RA_DESCEND", "RA_INCREASE_DESCEND", "RA_REDUCE_CLIMB", "RA_CROSSING_DESCEND",
     "RA_DO_NOT_CLIMB"}
ADV_NEUTRAL_RAS == {"RA_MAINTAIN"}

ADV_ra_vertical_direction(k) ==
    IF k \in ADV_UP_RAS THEN 1
    ELSE IF k \in ADV_DOWN_RAS THEN 0 - 1
    ELSE 0

\* C24: every kind has one vertical sense: for the kind of every aircraft handed
\* to the coordination resolver, the sense the resolver uses equals the sense
\* tcas.advisory.ra_vertical_direction returns, with RA_CLIMB = +1,
\* RA_DESCEND = -1 and RA_MAINTAIN = 0.  Violated: RA_REDUCE_CLIMB and
\* RA_REDUCE_DESCEND are neutral for the resolver, down and up for tcas.advisory.
C24_Original ==
    /\ \A i \in 1..Len(ac) :
          ra_vertical_direction(ac[i].advisory.kind)
             = ADV_ra_vertical_direction(ac[i].advisory.kind)
    /\ ra_vertical_direction("RA_CLIMB") = 1
    /\ ADV_ra_vertical_direction("RA_CLIMB") = 1
    /\ ra_vertical_direction("RA_DESCEND") = 0 - 1
    /\ ADV_ra_vertical_direction("RA_DESCEND") = 0 - 1
    /\ ra_vertical_direction("RA_MAINTAIN") = 0
    /\ ADV_ra_vertical_direction("RA_MAINTAIN") = 0

----------------------------------------------------------------------------
(* Properties of one classify_contact call, continued. *)

PrevRA == IsRAName(prev_state)

\* the RA thresholds of the ownship's sensitivity level
RaDefined == CurTh.ra_tau # None /\ CurTh.ra_dmod_m # None /\ CurTh.ra_zthr_ft # None
RaTau == Val(CurTh.ra_tau)
RaDmodCm == Val(CurTh.ra_dmod_m)
RaZthr == Val(CurTh.ra_zthr_ft)
AbsRelAlt == IF rel_alt_ft < 0 THEN 0 - rel_alt_ft ELSE rel_alt_ft
AbsRelClimb == IF rel_climb_fps < 0 THEN 0 - rel_climb_fps ELSE rel_climb_fps

AboveInhibit == own_alt_ft > 1000 /\ own_alt_ft > 50

\* tau < RA tau or d_cpa < RA DMOD / the same with <=
RangeInsideStrict ==
    \/ CurGeom.tau.n < RaTau * CurGeom.tau.d
    \/ CurGeom.d_cpa.n * 100 < RaDmodCm * CurGeom.d_cpa.d
RangeInside ==
    \/ CurGeom.tau.n <= RaTau * CurGeom.tau.d
    \/ CurGeom.d_cpa.n * 100 <= RaDmodCm * CurGeom.d_cpa.d

\* vertical tau, |rel_alt| / |relative vertical rate|, is at most RA tau
VertTauInside == rel_climb_fps # 0 /\ AbsRelAlt <= RaTau * AbsRelClimb

\* the RA envelope as the claim words it
EnvelopeAsStated == RaDefined /\ AboveInhibit /\ RangeInsideStrict /\ AbsRelAlt < RaZthr

\* the RA envelope with inclusive thresholds and the vertical tau alternative
EnvelopeInclusive ==
    RaDefined /\ AboveInhibit /\ RangeInside /\ (AbsRelAlt <= RaZthr \/ VertTauInside)

FreshEscalation ==
    Called /\ ~PrevRA /\ ~CurOuterClear /\ ~CurBeyondHmd /\ EnvelopeInclusive

\* 0.8 <= tau / RA_tau <= 1.2 and |rel_alt| / RA_ZTHR >= 0.4
PreventiveCase ==
    /\ 8 * RaTau * CurGeom.tau.d <= 10 * CurGeom.tau.n
    /\ 10 * CurGeom.tau.n <= 12 * RaTau * CurGeom.tau.d
    /\ 10 * AbsRelAlt >= 4 * RaZthr

\* C26: on fresh escalation with the RA condition holding and no preventive RA
\* substituted, the call returns RA_CROSSING_CLIMB or RA_CROSSING_DESCEND when
\* |rel_alt| < 250 ft, and otherwise RA_CLIMB for an intruder below and RA_DESCEND
\* for an intruder above.
C26_FreshSense ==
    (FreshEscalation /\ ~PreventiveCase) =>
        /\ AbsRelAlt < 250 => kind \in {"RA_CROSSING_CLIMB", "RA_CROSSING_DESCEND"}
        /\ (AbsRelAlt >= 250 /\ rel_alt_ft < 0) => kind = "RA_CLIMB"
        /\ (AbsRelAlt >= 250 /\ rel_alt_ft > 0) => kind = "RA_DESCEND"

\* an intruder 100 ft below gives a crossing RA, on a fresh escalation at the
\* edge of the preventive tau window
C26_Witness ==
    /\ FreshEscalation /\ ~PreventiveCase
    /\ rel_alt_ft = 0 - 100
    /\ 10 * CurGeom.tau.n = 8 * RaTau * CurGeom.tau.d
    /\ kind = "RA_CROSSING_CLIMB"

\* C27: on an exact altitude tie (rel_alt = 0), on fresh escalation with the RA
\* condition holding, the call returns RA_CLIMB.  Violated: a tie lies within the
\* crossing band of 250 ft, where rel_alt >= 0 gives RA_CROSSING_DESCEND.
C27_Original == (FreshEscalation /\ rel_alt_ft = 0) => kind = "RA_CLIMB"

\* C28: on fresh escalation with the RA condition holding, the call returns a
\* preventive RA exactly when 0.8 <= tau / RA_tau <= 1.2 and
\* |rel_alt| / RA_ZTHR >= 0.4; the kind is RA_DO_NOT_CLIMB for an intruder above
\* or level and RA_DO_NOT_DESCEND for an intruder below.
C28_PreventiveSubstitution ==
    FreshEscalation =>
        /\ kind \in {"RA_DO_NOT_CLIMB", "RA_DO_NOT_DESCEND"} <=> PreventiveCase
        /\ PreventiveCase =>
              kind = IF rel_alt_ft >= 0 THEN "RA_DO_NOT_CLIMB" ELSE "RA_DO_NOT_DESCEND"

\* tau / RA_tau = 0.8 and |rel_alt| / RA_ZTHR = 0.4 exactly, intruder above: the
\* call has returned RA_DO_NOT_CLIMB
C28_Witness ==
    /\ FreshEscalation /\ PreventiveCase
    /\ 10 * CurGeom.tau.n = 8 * RaTau * CurGeom.tau.d
    /\ 10 * AbsRelAlt = 4 * RaZthr
    /\ rel_alt_ft > 0
    /\ kind = "RA_DO_NOT_CLIMB"

\* a previous RA, the ownship above the inhibit altitudes, d_cpa within the HMD
\* and the RA envelope holding
RaContinues == Called /\ PrevRA /\ AboveInhibit /\ ~CurBeyondHmd /\ EnvelopeInclusive

\* the direction of the base kind chosen from rel_alt
BaseDescends == IF AbsRelAlt < 250 THEN rel_alt_ft >= 0 ELSE rel_alt_ft > 0

TauBelowHalf == 2 * CurGeom.tau.n < RaTau * CurGeom.tau.d
TauAboveWindow == 10 * CurGeom.tau.n > 12 * RaTau * CurGeom.tau.d

\* the refined kind of the claim
RefinedKind ==
    IF TauBelowHalf
    THEN IF BaseDescends THEN "RA_INCREASE_DESCEND" ELSE "RA_INCREASE_CLIMB"
    ELSE IF TauAboveWindow
    THEN IF BaseDescends THEN "RA_REDUCE_DESCEND" ELSE "RA_REDUCE_CLIMB"
    ELSE IF AbsRelAlt < 250
    THEN IF BaseDescends THEN "RA_CROSSING_DESCEND" ELSE "RA_CROSSING_CLIMB"
    ELSE IF BaseDescends THEN "RA_DESCEND" ELSE "RA_CLIMB"

\* C29 as stated: with a previous RA_* state, the ownship above the inhibit
\* altitudes, d_cpa <= HMD and the RA envelope holding, the call returns the
\* refined kind.  Violated: a contact that fails the outer clear gate (diverging,
\* or tau above 60 s) can satisfy all four conditions and is returned CLEAR.
C29_Original == RaContinues => kind = RefinedKind

\* C29 amended: when the outer clear gate is passed, the previous state is RA_*,
\* the ownship is above the inhibit altitudes, d_cpa <= HMD and the RA envelope
\* holds, the call returns RA_INCREASE_* if tau < RA_tau / 2, RA_REDUCE_* if
\* tau > 1.2 * RA_tau, and otherwise the base kind (RA_CLIMB / RA_DESCEND, or
\* RA_CROSSING_* when |rel_alt| < 250 ft), in the direction of the base kind
\* chosen from rel_alt.
C29_RefinementAmended == (RaContinues /\ ~CurOuterClear) => kind = RefinedKind

\* a continuing RA with tau above 1.2 RA_tau and the intruder below has been
\* weakened to RA_REDUCE_CLIMB
C29_Witness ==
    /\ RaContinues /\ ~CurOuterClear
    /\ TauAboveWindow /\ rel_alt_ft < 0
    /\ kind = "RA_REDUCE_CLIMB"

\* the TA envelope: (tau <= TA tau or d_cpa <= TA DMOD) and
\* (vertical tau <= TA tau or |rel_alt| <= TA ZTHR)
TaInside ==
    /\ \/ (CurTh.ta_tau # None
             /\ CurGeom.tau.n <= Val(CurTh.ta_tau) * CurGeom.tau.d)
       \/ (CurTh.ta_dmod_m # None
             /\ CurGeom.d_cpa.n * 100 <= Val(CurTh.ta_dmod_m) * CurGeom.d_cpa.d)
    /\ \/ (CurTh.ta_tau # None /\ rel_climb_fps # 0
             /\ AbsRelAlt <= Val(CurTh.ta_tau) * AbsRelClimb)
       \/ AbsRelAlt <= CurTh.ta_zthr_ft

\* the outer gate is passed, the previous state is RA_*, the ownship is above the
\* inhibit altitudes, d_cpa is within the HMD and the RA envelope has ended
RaEnded ==
    /\ Called /\ ~CurOuterClear /\ PrevRA /\ AboveInhibit /\ ~CurBeyondHmd
    /\ ~EnvelopeInclusive

\* C30: the call returns RA_MAINTAIN exactly when the outer clear gate is passed,
\* the previous state is RA_*, the ownship is above the ground and
\* RA-total-inhibit altitudes, d_cpa <= HMD, the RA envelope does not hold and the
\* TA envelope holds; under the same conditions with the TA envelope not holding
\* it returns CLEAR.
C30_MaintainExactly ==
    Called =>
        /\ kind = "RA_MAINTAIN" <=> (RaEnded /\ TaInside)
        /\ (RaEnded /\ ~TaInside) => kind = "CLEAR"

\* a previous RA whose intruder, still inside the RA range, is now beyond both
\* the RA and the TA vertical thresholds: the call has returned CLEAR
C30_Witness ==
    /\ RaEnded /\ ~TaInside
    /\ RangeInside
    /\ AbsRelAlt > CurTh.ta_zthr_ft
    /\ kind = "CLEAR"

----------------------------------------------------------------------------
(* tcas/advisory.py: the coordinated-opposite map of the advisory module. *)

ADV_RA_FLIP_MAP ==
    [k \in { "RA_CLIMB", "RA_DESCEND", "RA_INCREASE_CLIMB", "RA_INCREASE_DESCEND",
             "RA_REDUCE_CLIMB", "RA_REDUCE_DESCEND", "RA_CROSSING_CLIMB",
             "RA_CROSSING_DESCEND", "RA_DO_NOT_CLIMB", "RA_DO_NOT_DESCEND" } |->
        CASE k = "RA_CLIMB" -> "RA_DESCEND"
          [] k = "RA_DESCEND" -> "RA_CLIMB"
          [] k = "RA_INCREASE_CLIMB" -> "RA_INCREASE_DESCEND"
          [] k = "RA_INCREASE_DESCEND" -> "RA_INCREASE_CLIMB"
          [] k = "RA_REDUCE_CLIMB" -> "RA_REDUCE_DESCEND"
          [] k = "RA_REDUCE_DESCEND" -> "RA_REDUCE_CLIMB"
          [] k = "RA_CROSSING_CLIMB" -> "RA_CROSSING_DESCEND"
          [] k = "RA_CROSSING_DESCEND" -> "RA_CROSSING_CLIMB"
          [] k = "RA_DO_NOT_CLIMB" -> "RA_DO_NOT_DESCEND"
          [] k = "RA_DO_NOT_DESCEND" -> "RA_DO_NOT_CLIMB"]

----------------------------------------------------------------------------
(* Properties of the coordination resolver, continued. *)

Unflippable == {"RA_MAINTAIN", "TA", "CLEAR"}

\* both maps send every key to a key, undo themselves and negate the sense
InvolutiveMaps ==
    /\ DOMAIN RA_FLIP_MAP = DOMAIN ADV_RA_FLIP_MAP
    /\ \A k \in DOMAIN RA_FLIP_MAP :
          /\ RA_FLIP_MAP[k] \in DOMAIN RA_FLIP_MAP
          /\ RA_FLIP_MAP[RA_FLIP_MAP[k]] = k
          /\ ra_vertical_direction(RA_FLIP_MAP[k]) = 0 - ra_vertical_direction(k)
          /\ ADV_RA_FLIP_MAP[k] = RA_FLIP_MAP[k]
          /\ ADV_ra_vertical_direction(ADV_RA_FLIP_MAP[k]) = 0 - ADV_ra_vertical_direction(k)
    /\ Unflippable \cap DOMAIN RA_FLIP_MAP = {}

\* C31: the coordinated-opposite map is a sense-reversing involution: for every
\* kind k of the map flip(flip(k)) = k and the sense of flip(k) is the negation of
\* the sense of k; RA_MAINTAIN, TA and CLEAR have no entry, and whenever the
\* resolver changes an aircraft's kind the new kind is the flip of the old one,
\* of negated sense, and an aircraft holding RA_MAINTAIN, TA or CLEAR is never
\* changed.
C31_FlipInvolution ==
    [][/\ InvolutiveMaps
       /\ PairStep =>
             \A i \in 1..Len(ac) :
                /\ ac'[i].advisory.kind # ac[i].advisory.kind =>
                      /\ ac[i].advisory.kind \in DOMAIN RA_FLIP_MAP
                      /\ ac'[i].advisory.kind = RA_FLIP_MAP[ac[i].advisory.kind]
                      /\ RA_FLIP_MAP[ac'[i].advisory.kind] = ac[i].advisory.kind
                      /\ SenseOf(ac'[i].advisory.kind) = 0 - SenseOf(ac[i].advisory.kind)
                /\ ac[i].advisory.kind \in Unflippable => ac'[i] = ac[i]]_vars

\* an aircraft has been flipped twice by the resolver and holds RA_CLIMB again
C31_Witness ==
    /\ ResolverReturned
    /\ \E i \in 1..Len(ac) :
          /\ ac[i].advisory.reason = <<"test", FLIP_NOTE, FLIP_NOTE>>
          /\ ac[i].advisory.kind = "RA_CLIMB"

----------------------------------------------------------------------------
(* Properties of Tracking.build_tracks inside World.step. *)

\* the tracks have just been built from the aircraft of the world
TracksBuilt == pc = "aggregate" /\ Len(rels_by_own) = Len(ac)

\* the intruders own i has a track of, and the track of (i, j)
TrackedBy(i) == { rels_by_own[i][k].cs : k \in 1..Len(rels_by_own[i]) }
TrackOf(i, j) ==
    LET k == CHOOSE x \in 1..Len(rels_by_own[i]) : rels_by_own[i][x].cs = j
    IN  rels_by_own[i][k].track

Negated(t) == << <<0 - t[1][1], 0 - t[1][2]>>, <<0 - t[2][1], 0 - t[2][2]>>, 0 - t[3], 0 - t[4] >>

----------------------------------------------------------------------------
(* One call of closing_tau_and_dcpA on small whole vectors. *)

MaxCoord == 6

GeoPos == (0 - MaxCoord..MaxCoord) \X (0 - MaxCoord..MaxCoord)
GeoVels ==
    { <<0, 0>>, <<3, 4>>, <<-3, 4>>, <<4, -3>>, <<-5, 0>>, <<0, 5>>, <<5, 12>>,
      <<-8, 6>>, <<-12, -5>> }

GeometryInit ==
    /\ rel_pos_m \in GeoPos
    /\ rel_vel_mps \in GeoVels
    /\ (rel_vel_mps = <<0, 0>> => HasWholeNorm(rel_pos_m))
    /\ own_alt_ft = 0 /\ rel_alt_ft = 0 /\ rel_climb_fps = 0
    /\ prev_state = "None" /\ kind = "Idle"
    /\ geom = None

\* the call
ClosingTauDcpa ==
    /\ geom = None /\ kind = "Idle"
    /\ geom' = Some(closing_tau_and_dcpA(rel_pos_m, rel_vel_mps))
    /\ UNCHANGED <<own_alt_ft, rel_pos_m, rel_vel_mps, rel_alt_ft, rel_climb_fps,
                   prev_state, kind>>
    /\ UNCHANGED <<worldVars, logicVars, auxVars>>

\* the state before the call, with no World and no other call
GeometryStart == GeometryInit /\ WorldIdle /\ LogicIdle /\ MonitorInit /\ CommandIdle

SpecGeometry == GeometryStart /\ [][ClosingTauDcpa]_vars

----------------------------------------------------------------------------
(* Properties of closing_tau_and_dcpA. *)

GeomDone == geom # None
Tau == Val(geom).tau
Dcpa == Val(geom).d_cpa
Speed2 == rel_vel_mps[1] * rel_vel_mps[1] + rel_vel_mps[2] * rel_vel_mps[2]
Range2 == rel_pos_m[1] * rel_pos_m[1] + rel_pos_m[2] * rel_pos_m[2]
PosDotVel == rel_pos_m[1] * rel_vel_mps[1] + rel_pos_m[2] * rel_vel_mps[2]

----------------------------------------------------------------------------
(* Properties of AdvisoryLogic.step, continued. *)

\* C34: an RA never steps down to TA: when the ownship's previous advisory is an
\* RA_* kind, AdvisoryLogic.step returns CLEAR or an RA_* kind, never TA, for
\* every set of intruders.  Violated: with any intruder the call raises and
\* returns no advisory at all.
C34_Original ==
    (LogicDone /\ IsRAName(Val(logic_own).advisory.kind)) =>
        /\ Val(logic_result).ok
        /\ \/ Val(Val(logic_result).value).kind = "CLEAR"
           \/ IsRAName(Val(Val(logic_result).value).kind)

----------------------------------------------------------------------------
(* Properties of World.step, continued. *)

\* a world of exactly two aircraft, both TCAS-equipped, airborne and in AUTO mode
TwoCooperatingAuto ==
    /\ Len(ac) = 2
    /\ \A i \in 1..2 :
          ac[i].tcas_equipped /\ ~ac[i].on_ground /\ ac[i].control_mode = "AUTO"

BothNonNeutralRA ==
    \A i \in 1..2 : IsRAName(ac[i].advisory.kind) /\ SenseOf(ac[i].advisory.kind) # 0

----------------------------------------------------------------------------
(* Properties of apply_command, continued. *)

C37_RateFollowsSense ==
    (Applied /\ Before.tcas_equipped /\ NoManualInput) =>
        /\ Before.advisory.kind \in {"RA_CLIMB", "RA_CROSSING_CLIMB", "RA_INCREASE_CLIMB",
                                     "RA_DO_NOT_DESCEND"}
              => (After.climb_fps >= 0 /\ ra_vertical_direction(Before.advisory.kind) = 1)
        /\ Before.advisory.kind \in {"RA_DESCEND", "RA_CROSSING_DESCEND",
                                     "RA_INCREASE_DESCEND", "RA_DO_NOT_CLIMB"}
              => (After.climb_fps <= 0 /\ ra_vertical_direction(Before.advisory.kind) = 0 - 1)

\* a descent of 600 fpm under RA_DO_NOT_DESCEND has been stopped
C37_Witness ==
    /\ Applied /\ Before.tcas_equipped /\ NoManualInput
    /\ Before.advisory.kind = "RA_DO_NOT_DESCEND"
    /\ Before.climb_fps = 0 - 600
    /\ After.climb_fps = 0

----------------------------------------------------------------------------
(* The previous state of classify_contact and of the aggregation. *)

HysteresisKinds ==
    {"RA_INCREASE_CLIMB", "RA_INCREASE_DESCEND", "RA_REDUCE_CLIMB", "RA_REDUCE_DESCEND",
     "RA_MAINTAIN"}
PreventiveKinds == {"RA_DO_NOT_CLIMB", "RA_DO_NOT_DESCEND"}

\* the classifier's half of C38: the hysteresis kinds are returned only for an
\* RA_* previous state, TA and the preventive RAs only for a previous state that is
\* none
ClassifierPartition ==
    Called =>
        /\ kind \in HysteresisKinds => PrevRA
        /\ kind \in PreventiveKinds \cup {"TA"} => ~PrevRA

----------------------------------------------------------------------------
(* Properties of classify_contact: the previous state and contacts at rest. *)

\* the previous states a caller can pass: None or any AdvisoryType
AnyPrevState == AdvisoryType \cup {"None"}

\* the kind the call would have returned for the same own altitude and geometry
\* and the previous state p
KindFor(p) ==
    classify_contact(own_alt_ft, rel_pos_m, rel_vel_mps, rel_alt_ft, rel_climb_fps, p).kind

\* C39: the kind returned depends on prev_state only through whether it is an
\* RA_* kind: for the same own altitude and geometry any two RA_* previous states
\* give the same kind, and any two non-RA previous states (CLEAR, TA, None) give
\* the same kind.
C39_PrevOnlyThroughRA ==
    Called =>
        \A p \in AnyPrevState :
            ((p \in AdvisoryType /\ IsRAName(p)) <=> PrevRA) => KindFor(p) = kind

\* a previous RA_DO_NOT_CLIMB gives RA_INCREASE_DESCEND, as a previous RA_CLIMB
\* does, where a previous TA gives another kind
C39_Witness ==
    /\ Called /\ prev_state = "RA_DO_NOT_CLIMB" /\ kind = "RA_INCREASE_DESCEND"
    /\ KindFor("RA_CLIMB") = kind
    /\ KindFor("TA") # kind

\* the contact is at rest relative to the ownship
AtRest == rel_vel_mps[1] * rel_vel_mps[1] + rel_vel_mps[2] * rel_vel_mps[2] = 0

\* C40: a contact with zero relative horizontal velocity is always classified
\* CLEAR, for every range, relative altitude, own altitude and previous state,
\* inside the NMAC separation thresholds and with an RA_* previous state too.
C40_AtRestClear == (Called /\ AtRest) => kind = "CLEAR"

\* 300 m away and co-altitude, inside NMAC_HORZ_M and NMAC_VERT_FT, with a previous
\* RA_CLIMB and above the inhibit altitudes
C40_Witness ==
    /\ Called /\ AtRest
    /\ rel_pos_m = <<300, 0>> /\ rel_alt_ft = 0
    /\ 100 * 300 < NMAC_HORZ_M /\ 0 < NMAC_VERT_FT
    /\ prev_state = "RA_CLIMB" /\ own_alt_ft = 15000
    /\ kind = "CLEAR"

====
